---- MODULE Spec2Model ----
(***************************************************************************)
(* The two request handlers of vibe-validator, POST /api/analyze (image)   *)
(* and POST /api/analyze-movie (movie), as one state machine per request.  *)
(* Every outbound fetch is split in two steps, the issue of the call and   *)
(* the arrival of its outcome; the outcome is chosen by the environment.   *)
(*                                                                         *)
(* JavaScript strings are sequences of one-character strings, so that      *)
(* toLowerCase, includes, charAt, slice and join are computed.  JavaScript *)
(* values of unknown type (what JSON.parse returns) are tagged records.    *)
(*                                                                         *)
(* A second specification, LibSpec, calls the functions of the two route   *)
(* modules on their own, each up to MaxCalls times on the same arguments.  *)
(***************************************************************************)
EXTENDS Integers, Sequences, FiniteSets, TLC

VARIABLES
    endpoint,      \* "analyze" | "movie": the route the request was sent to
    body,          \* the request body as request.json() delivers it
    hfKey,         \* process.env.HUGGINGFACE_API_KEY is set
    qlooKey,       \* process.env.QLOO_API_KEY is set
    pc,            \* the await the handler is suspended at, or "done"
    inflight,      \* the outbound calls issued and not yet settled
    log,           \* the outbound calls of the request, in order of issue
    local,         \* the handler's local variables
    response,      \* the NextResponse returned, or NoResponse
    calls,         \* the invocations made of a function called on its own
    page           \* the page in the browser: its React state and what its handler awaits

vars == <<endpoint, body, hfKey, qlooKey, pc, inflight, log, local, response, calls, page>>

----------------------------------------------------------------------------
(* JavaScript strings *)

Upper == <<"A","B","C","D","E","F","G","H","I","J","K","L","M","N","O","P","Q","R","S","T","U","V","W","X","Y","Z">>
Lower == <<"a","b","c","d","e","f","g","h","i","j","k","l","m","n","o","p","q","r","s","t","u","v","w","x","y","z">>

LowerChar(c) ==
    IF \E i \in 1..Len(Upper) : Upper[i] = c
    THEN Lower[CHOOSE i \in 1..Len(Upper) : Upper[i] = c]
    ELSE c

UpperChar(c) ==
    IF \E i \in 1..Len(Lower) : Lower[i] = c
    THEN Upper[CHOOSE i \in 1..Len(Lower) : Lower[i] = c]
    ELSE c

toLowerCase(s) == [i \in 1..Len(s) |-> LowerChar(s[i])]

\* s.includes(sub)
includes(s, sub) ==
    \E i \in 1..(Len(s) - Len(sub) + 1) : SubSeq(s, i, i + Len(sub) - 1) = sub

\* s.charAt(0).toUpperCase() + s.slice(1)
capitalize(s) == IF Len(s) = 0 THEN s ELSE <<UpperChar(s[1])>> \o Tail(s)

\* a.slice(0, n) of an array or a string
slice0(a, n) == SubSeq(a, 1, IF Len(a) < n THEN Len(a) ELSE n)

RECURSIVE join(_, _)
\* a.join(sep)
join(a, sep) ==
    IF Len(a) = 0 THEN <<>>
    ELSE IF Len(a) = 1 THEN a[1]
    ELSE a[1] \o sep \o join(Tail(a), sep)

RECURSIVE replaceSpaces(_)
\* s.replace(/\s+/g, '_'): every run of white space becomes one underscore
replaceSpaces(s) ==
    IF Len(s) = 0 THEN <<>>
    ELSE IF s[1] = " "
         THEN IF Len(s) > 1 /\ s[2] = " "
              THEN replaceSpaces(Tail(s))
              ELSE <<"_">> \o replaceSpaces(Tail(s))
         ELSE <<s[1]>> \o replaceSpaces(Tail(s))

RECURSIVE dedupe(_)
\* Array.from(new Set(a)), [...new Set(a)]: first occurrences, in order
dedupe(a) ==
    IF Len(a) = 0 THEN <<>>
    ELSE LET front == dedupe(SubSeq(a, 1, Len(a) - 1))
             last == a[Len(a)]
         IN IF \E i \in 1..Len(front) : front[i] = last
            THEN front
            ELSE Append(front, last)

RECURSIVE flatten(_)
\* the concatenation of a sequence of sequences
flatten(ss) == IF Len(ss) = 0 THEN <<>> ELSE ss[1] \o flatten(Tail(ss))

----------------------------------------------------------------------------
(* JavaScript values whose type the code does not control *)

Undefined == [t |-> "undefined"]
Str(s) == [t |-> "string", v |-> s]
Num(n) == [t |-> "number", v |-> n]
Arr(a) == [t |-> "array", v |-> a]

\* the value in a condition: if (v), v || w, !v
truthy(v) ==
    CASE v.t = "undefined" -> FALSE
      [] v.t = "string" -> Len(v.v) > 0
      [] v.t = "number" -> v.v # 0
      [] OTHER -> TRUE

\* v || w
orElse(v, w) == IF truthy(v) THEN v ELSE w

\* v.length, Undefined for a value that has none
lengthOf(v) == IF v.t \in {"string", "array"} THEN Num(Len(v.v)) ELSE Undefined

\* what a function call ends in: a returned value or a thrown exception
Return(v) == [threw |-> FALSE, val |-> v]
Throw(m) == [threw |-> TRUE, msg |-> m]

----------------------------------------------------------------------------
(* POST /api/analyze: the keyword-matching analyzer *)

\* vibePatterns, in the order Object.entries walks it
vibePatterns == <<
    [vibe |-> <<"m","o","d","e","r","n"," ","m","i","n","i","m","a","l","i","s","t">>, keywords |-> <<<<"c","l","e","a","n">>, <<"s","i","m","p","l","e">>, <<"w","h","i","t","e">>, <<"m","i","n","i","m","a","l">>, <<"c","o","n","t","e","m","p","o","r","a","r","y">>, <<"s","l","e","e","k">>>>],
    [vibe |-> <<"v","i","n","t","a","g","e"," ","r","u","s","t","i","c">>, keywords |-> <<<<"w","o","o","d">>, <<"r","u","s","t","i","c">>, <<"v","i","n","t","a","g","e">>, <<"o","l","d">>, <<"t","r","a","d","i","t","i","o","n","a","l">>, <<"a","n","t","i","q","u","e">>>>],
    [vibe |-> <<"i","n","d","u","s","t","r","i","a","l"," ","c","h","i","c">>, keywords |-> <<<<"m","e","t","a","l">>, <<"i","n","d","u","s","t","r","i","a","l">>, <<"c","o","n","c","r","e","t","e">>, <<"s","t","e","e","l">>, <<"u","r","b","a","n">>, <<"l","o","f","t">>>>],
    [vibe |-> <<"b","o","h","e","m","i","a","n"," ","e","c","l","e","c","t","i","c">>, keywords |-> <<<<"c","o","l","o","r","f","u","l">>, <<"a","r","t","i","s","t","i","c">>, <<"e","c","l","e","c","t","i","c">>, <<"p","l","a","n","t","s">>, <<"t","e","x","t","i","l","e","s">>, <<"b","o","h","o">>>>],
    [vibe |-> <<"l","u","x","u","r","y"," ","e","l","e","g","a","n","t">>, keywords |-> <<<<"e","l","e","g","a","n","t">>, <<"l","u","x","u","r","y">>, <<"g","o","l","d">>, <<"m","a","r","b","l","e">>, <<"e","x","p","e","n","s","i","v","e">>, <<"r","e","f","i","n","e","d">>>>],
    [vibe |-> <<"c","o","z","y"," ","c","a","s","u","a","l">>, keywords |-> <<<<"c","o","z","y">>, <<"c","o","m","f","o","r","t","a","b","l","e">>, <<"w","a","r","m">>, <<"c","a","s","u","a","l">>, <<"s","o","f","t">>, <<"r","e","l","a","x","e","d">>>>],
    [vibe |-> <<"c","o","n","t","e","m","p","o","r","a","r","y"," ","s","o","p","h","i","s","t","i","c","a","t","e","d">>, keywords |-> <<<<"m","o","d","e","r","n">>, <<"s","o","p","h","i","s","t","i","c","a","t","e","d">>, <<"s","t","y","l","i","s","h">>, <<"d","e","s","i","g","n","e","d">>, <<"c","u","r","a","t","e","d">>>>] >>

aestheticWords == <<
    <<"m","o","d","e","r","n">>, <<"v","i","n","t","a","g","e">>, <<"r","u","s","t","i","c">>, <<"e","l","e","g","a","n","t">>, <<"m","i","n","i","m","a","l">>, <<"c","o","l","o","r","f","u","l">>, <<"d","a","r","k">>, <<"b","r","i","g","h","t">>,
    <<"w","o","o","d","e","n">>, <<"m","e","t","a","l">>, <<"g","l","a","s","s">>, <<"f","a","b","r","i","c">>, <<"l","e","a","t","h","e","r">>, <<"s","t","o","n","e">>, <<"c","e","r","a","m","i","c">>, <<"p","l","a","s","t","i","c">>,
    <<"c","l","e","a","n">>, <<"m","e","s","s","y">>, <<"o","r","g","a","n","i","z","e","d">>, <<"a","r","t","i","s","t","i","c">>, <<"f","u","n","c","t","i","o","n","a","l">>, <<"d","e","c","o","r","a","t","i","v","e">> >>

\* moodMappings, keyed like vibePatterns (same order)
moodMappings == <<
    <<<<"c","a","l","m">>, <<"f","o","c","u","s","e","d">>, <<"s","e","r","e","n","e">>>>,
    <<<<"n","o","s","t","a","l","g","i","c">>, <<"w","a","r","m">>, <<"h","o","m","e","y">>>>,
    <<<<"e","d","g","y">>, <<"u","r","b","a","n">>, <<"c","r","e","a","t","i","v","e">>>>,
    <<<<"f","r","e","e","-","s","p","i","r","i","t","e","d">>, <<"a","r","t","i","s","t","i","c">>, <<"v","i","b","r","a","n","t">>>>,
    <<<<"s","o","p","h","i","s","t","i","c","a","t","e","d">>, <<"r","e","f","i","n","e","d">>, <<"e","x","c","l","u","s","i","v","e">>>>,
    <<<<"c","o","m","f","o","r","t","a","b","l","e">>, <<"r","e","l","a","x","e","d">>, <<"i","n","t","i","m","a","t","e">>>>,
    <<<<"p","o","l","i","s","h","e","d">>, <<"t","r","e","n","d","y">>, <<"c","o","n","f","i","d","e","n","t">>>> >>

\* keywords.reduce((acc, keyword) => acc + (lowerDesc.includes(keyword) ? 1 : 0), 0)
vibeScore(lowerDesc, keywords) ==
    Cardinality({i \in 1..Len(keywords) : includes(lowerDesc, keywords[i])})

RECURSIVE bestVibeFromLast(_, _, _, _)
\* variant of bestVibeFrom: score >= bestScore where the source has score > bestScore
bestVibeFromLast(lowerDesc, k, best, bestScore) ==
    IF k > Len(vibePatterns) THEN best
    ELSE LET score == vibeScore(lowerDesc, vibePatterns[k].keywords)
         IN IF score >= bestScore /\ score > 0
            THEN bestVibeFromLast(lowerDesc, k + 1, k, score)
            ELSE bestVibeFromLast(lowerDesc, k + 1, best, bestScore)

RECURSIVE bestVibeFrom(_, _, _, _)
\* the loop over Object.entries(vibePatterns): [best, score] after entries k..
bestVibeFrom(lowerDesc, k, best, bestScore) ==
    IF k > Len(vibePatterns) THEN best
    ELSE LET score == vibeScore(lowerDesc, vibePatterns[k].keywords)
         IN IF score > bestScore
            THEN bestVibeFrom(lowerDesc, k + 1, k, score)
            ELSE bestVibeFrom(lowerDesc, k + 1, best, bestScore)

\* variant of bestVibeIndex: bestScore is kept between invocations, as a variable
\* declared outside the function would be
bestVibeIndexKeepingScore(lowerDesc) ==
    IF calls = <<>> THEN bestVibeFrom(lowerDesc, 1, 0, 0)
    ELSE LET before == toLowerCase(calls[Len(calls)].args[1].v)
             b == bestVibeFrom(before, 1, 0, 0)
         IN bestVibeFrom(lowerDesc, 1, 0,
                         IF b = 0 THEN 0 ELSE vibeScore(before, vibePatterns[b].keywords))

\* the index in vibePatterns of the best vibe, 0 for the default 'contemporary'
bestVibeIndex(lowerDesc) == bestVibeFrom(lowerDesc, 1, 0, 0)

\* intelligentVibeAnalysis(description); description.toLowerCase() throws on a
\* value that is not a string
intelligentVibeAnalysis(description) ==
    IF description.t # "string" THEN Throw(<<"d","e","s","c","r","i","p","t","i","o","n",".","t","o","L","o","w","e","r","C","a","s","e"," ","i","s"," ","n","o","t"," ","a"," ","f","u","n","c","t","i","o","n">>)
    ELSE
    LET lowerDesc == toLowerCase(description.v)
        b == bestVibeIndex(lowerDesc)
        bestVibe == IF b = 0 THEN <<"c","o","n","t","e","m","p","o","r","a","r","y">> ELSE vibePatterns[b].vibe
        foundKeywords == SelectSeq(aestheticWords, LAMBDA w : includes(lowerDesc, w))
        secondaryVibes == IF b = 0 THEN <<<<"c","o","n","t","e","m","p","o","r","a","r","y">>, <<"s","t","y","l","i","s","h">>>> ELSE vibePatterns[b].keywords
        moodDescriptors == IF b = 0 THEN <<<<"m","o","d","e","r","n">>, <<"a","p","p","e","a","l","i","n","g">>>> ELSE moodMappings[b]
    IN Return([
        primaryVibe |-> Str(bestVibe),
        secondaryVibes |-> Arr(slice0(secondaryVibes, 3)),
        culturalContext |-> Str(<<"T","h","i","s"," ","s","p","a","c","e"," ","e","m","b","o","d","i","e","s"," ","a"," ">> \o bestVibe
            \o <<" ","a","e","s","t","h","e","t","i","c",","," ","r","e","f","l","e","c","t","i","n","g"," ","c","o","n","t","e","m","p","o","r","a","r","y"," ","d","e","s","i","g","n"," ","s","e","n","s","i","b","i","l","i","t","i","e","s"," ","a","n","d"," ","c","u","l","t","u","r","a","l"," ","p","r","e","f","e","r","e","n","c","e","s"," ","f","o","r"," ">>
            \o join(moodDescriptors, <<","," ">>) \o <<" ","e","n","v","i","r","o","n","m","e","n","t","s",".">>),
        aestheticKeywords |-> Arr(IF Len(foundKeywords) > 0 THEN slice0(foundKeywords, 5)
                                   ELSE <<<<"c","o","n","t","e","m","p","o","r","a","r","y">>, <<"d","e","s","i","g","n","e","d">>>>),
        moodDescriptors |-> Arr(moodDescriptors) ])

\* the analysis POST substitutes when analyzeVibeWithHF throws
defaultVibeAnalysis == [
    primaryVibe |-> Str(<<"c","o","n","t","e","m","p","o","r","a","r","y">>),
    secondaryVibes |-> Arr(<<<<"m","o","d","e","r","n">>, <<"s","t","y","l","i","s","h">>>>),
    culturalContext |-> Str(<<"A"," ","s","p","a","c","e"," ","w","i","t","h"," ","c","o","n","t","e","m","p","o","r","a","r","y"," ","a","p","p","e","a","l"," ","a","n","d"," ","m","o","d","e","r","n"," ","s","e","n","s","i","b","i","l","i","t","i","e","s">>),
    aestheticKeywords |-> Arr(<<<<"m","o","d","e","r","n">>, <<"c","o","n","t","e","m","p","o","r","a","r","y">>, <<"s","t","y","l","i","s","h">>>>),
    moodDescriptors |-> Arr(<<<<"s","o","p","h","i","s","t","i","c","a","t","e","d">>, <<"c","l","e","a","n">>, <<"a","p","p","e","a","l","i","n","g">>>>) ]

\* the description POST substitutes when analyzeImageWithHF throws
fallbackDescription == Str(<<"A"," ","s","p","a","c","e"," ","w","i","t","h"," ","m","o","d","e","r","n"," ","a","e","s","t","h","e","t","i","c"," ","e","l","e","m","e","n","t","s"," ","a","n","d"," ","c","o","n","t","e","m","p","o","r","a","r","y"," ","d","e","s","i","g","n"," ","f","e","a","t","u","r","e","s">>)

----------------------------------------------------------------------------
(* POST /api/analyze: the fallback recommendation generator.               *)
(* confidence is in thousandths (0.75 is 750), rating in tenths (4.2 is 42) *)

\* variant of fallbackItem: the tags are not passed through a Set
fallbackItemKeepingDuplicates(id, name, description, reason, confidence, tags, rating) ==
    [id |-> id, name |-> name, description |-> description, reason |-> reason,
     confidence |-> confidence, tags |-> tags, rating |-> rating]

\* one entry of fallbackData
fallbackItem(id, name, description, reason, confidence, tags, rating) ==
    [id |-> id, name |-> name, description |-> description, reason |-> reason,
     confidence |-> confidence, tags |-> dedupe(tags), rating |-> rating]

\* moodDescriptors[0] || 'Contemporary'
firstMoodOr(md) == IF Len(md) > 0 /\ Len(md[1]) > 0 THEN md[1] ELSE <<"C","o","n","t","e","m","p","o","r","a","r","y">>

\* the fallbackData table for an analysis whose three fields have the expected types
fallbackData(category, pv, ak, md) ==
    CASE category = "restaurants" -> <<
        fallbackItem(<<"1">>, capitalize(pv) \o <<" ","B","i","s","t","r","o">>,
            <<"A"," ","r","e","s","t","a","u","r","a","n","t"," ","t","h","a","t"," ","e","m","b","o","d","i","e","s"," ">> \o pv \o <<" ","d","i","n","i","n","g"," ","w","i","t","h"," ">> \o join(ak, <<","," ">>) \o <<" ","e","l","e","m","e","n","t","s">>,
            <<"M","a","t","c","h","e","s"," ","y","o","u","r"," ">> \o pv \o <<" ","a","e","s","t","h","e","t","i","c"," ","w","i","t","h"," ","s","o","p","h","i","s","t","i","c","a","t","e","d"," ","a","m","b","i","a","n","c","e">>,
            750, slice0(ak, 3) \o <<<<"d","i","n","i","n","g">>, <<"r","e","s","t","a","u","r","a","n","t">>>>, 42),
        fallbackItem(<<"2">>, <<"T","h","e"," ">> \o firstMoodOr(md) \o <<" ","T","a","b","l","e">>,
            <<"C","o","n","t","e","m","p","o","r","a","r","y"," ","d","i","n","i","n","g"," ","s","p","a","c","e"," ","r","e","f","l","e","c","t","i","n","g"," ">> \o join(md, <<","," ">>) \o <<" ","a","t","m","o","s","p","h","e","r","e">>,
            <<"C","o","m","p","l","e","m","e","n","t","s"," ","t","h","e"," ">> \o pv \o <<" ","v","i","b","e"," ","w","i","t","h"," ","c","u","r","a","t","e","d"," ","d","i","n","i","n","g"," ","e","x","p","e","r","i","e","n","c","e">>,
            720, slice0(md, 2) \o <<<<"c","o","n","t","e","m","p","o","r","a","r","y">>, <<"d","i","n","i","n","g">>>>, 40) >>
      [] category = "music" -> <<
        fallbackItem(<<"1">>, capitalize(pv) \o <<" ","P","l","a","y","l","i","s","t">>,
            <<"C","u","r","a","t","e","d"," ","m","u","s","i","c"," ","s","e","l","e","c","t","i","o","n"," ","p","e","r","f","e","c","t"," ","f","o","r"," ">> \o pv \o <<" ","s","p","a","c","e","s">>,
            <<"S","o","u","n","d"," ","d","e","s","i","g","n"," ","t","h","a","t"," ","c","o","m","p","l","e","m","e","n","t","s"," ">> \o pv \o <<" ","a","e","s","t","h","e","t","i","c","s">>,
            800, slice0(ak, 2) \o <<<<"p","l","a","y","l","i","s","t">>, <<"a","m","b","i","e","n","t">>>>, 45),
        fallbackItem(<<"2">>, firstMoodOr(md) \o <<" ","S","o","u","n","d","s","c","a","p","e">>,
            <<"A","u","d","i","o"," ","e","x","p","e","r","i","e","n","c","e","s"," ","t","h","a","t"," ","m","a","t","c","h"," ">> \o join(md, <<","," ">>) \o <<" ","m","o","o","d","s">>,
            <<"M","u","s","i","c","a","l"," ","e","l","e","m","e","n","t","s"," ","t","h","a","t"," ","e","n","h","a","n","c","e"," ","t","h","e"," ">> \o pv \o <<" ","a","t","m","o","s","p","h","e","r","e">>,
            760, slice0(md, 2) \o <<<<"s","o","u","n","d","s","c","a","p","e">>, <<"a","m","b","i","e","n","t">>>>, 43) >>
      [] category = "activities" -> <<
        fallbackItem(<<"1">>, capitalize(pv) \o <<" ","G","a","l","l","e","r","y"," ","E","x","p","e","r","i","e","n","c","e">>,
            <<"C","u","l","t","u","r","a","l"," ","a","c","t","i","v","i","t","i","e","s"," ","t","h","a","t"," ","c","e","l","e","b","r","a","t","e"," ">> \o pv \o <<" ","a","e","s","t","h","e","t","i","c","s">>,
            <<"A","c","t","i","v","i","t","i","e","s"," ","a","l","i","g","n","e","d"," ","w","i","t","h"," ">> \o pv \o <<" ","c","u","l","t","u","r","a","l"," ","s","e","n","s","i","b","i","l","i","t","i","e","s">>,
            780, slice0(ak, 3) \o <<<<"c","u","l","t","u","r","e">>, <<"g","a","l","l","e","r","y">>>>, 44),
        fallbackItem(<<"2">>, firstMoodOr(md) \o <<" ","W","o","r","k","s","h","o","p">>,
            <<"H","a","n","d","s","-","o","n"," ","e","x","p","e","r","i","e","n","c","e","s"," ","i","n"," ">> \o join(md, <<","," ">>) \o <<" ","e","n","v","i","r","o","n","m","e","n","t","s">>,
            <<"I","n","t","e","r","a","c","t","i","v","e"," ","a","c","t","i","v","i","t","i","e","s"," ","t","h","a","t"," ","m","a","t","c","h"," ","y","o","u","r"," ">> \o pv \o <<" ","p","r","e","f","e","r","e","n","c","e","s">>,
            740, slice0(md, 2) \o <<<<"w","o","r","k","s","h","o","p">>, <<"c","r","e","a","t","i","v","e">>>>, 41) >>
      [] category = "experiences" -> <<
        fallbackItem(<<"1">>, capitalize(pv) \o <<" ","S","p","a","c","e"," ","T","o","u","r">>,
            <<"C","u","r","a","t","e","d"," ","e","x","p","e","r","i","e","n","c","e","s"," ","s","h","o","w","c","a","s","i","n","g"," ">> \o pv \o <<" ","d","e","s","i","g","n"," ","a","n","d"," ","c","u","l","t","u","r","e">>,
            <<"E","x","p","e","r","i","e","n","c","e","s"," ","t","h","a","t"," ","c","e","l","e","b","r","a","t","e"," ">> \o pv \o <<" ","a","e","s","t","h","e","t","i","c"," ","p","r","i","n","c","i","p","l","e","s">>,
            770, slice0(ak, 3) \o <<<<"t","o","u","r">>, <<"e","x","p","e","r","i","e","n","c","e">>>>, 43),
        fallbackItem(<<"2">>, <<"T","h","e"," ">> \o firstMoodOr(md) \o <<" ","E","x","p","e","r","i","e","n","c","e">>,
            <<"I","m","m","e","r","s","i","v","e"," ","e","x","p","e","r","i","e","n","c","e","s"," ","d","e","s","i","g","n","e","d"," ","f","o","r"," ">> \o join(md, <<","," ">>) \o <<" ","a","p","p","r","e","c","i","a","t","i","o","n">>,
            <<"T","a","i","l","o","r","e","d"," ","e","x","p","e","r","i","e","n","c","e","s"," ","t","h","a","t"," ","r","e","s","o","n","a","t","e"," ","w","i","t","h"," ">> \o pv \o <<" ","v","a","l","u","e","s">>,
            730, slice0(md, 2) \o <<<<"i","m","m","e","r","s","i","v","e">>, <<"c","u","r","a","t","e","d">>>>, 42) >>
      [] OTHER -> <<>>

\* variant of getFallbackCategoryItems: the items of every category are returned
getFallbackCategoryItemsOfAll(category, vibeAnalysis) ==
    Return(fallbackData("restaurants", vibeAnalysis.primaryVibe.v,
                        vibeAnalysis.aestheticKeywords.v, vibeAnalysis.moodDescriptors.v)
           \o fallbackData("music", vibeAnalysis.primaryVibe.v,
                           vibeAnalysis.aestheticKeywords.v, vibeAnalysis.moodDescriptors.v))

\* getFallbackCategoryItems(category, vibeAnalysis): building fallbackData calls
\* primaryVibe.charAt, aestheticKeywords.join and moodDescriptors.join, each a
\* TypeError on a value of another type (undefined included)
getFallbackCategoryItems(category, vibeAnalysis) ==
    IF vibeAnalysis.primaryVibe.t # "string"
    THEN Throw(<<"p","r","i","m","a","r","y","V","i","b","e",".","c","h","a","r","A","t"," ","i","s"," ","n","o","t"," ","a"," ","f","u","n","c","t","i","o","n">>)
    ELSE IF vibeAnalysis.aestheticKeywords.t # "array"
    THEN Throw(<<"a","e","s","t","h","e","t","i","c","K","e","y","w","o","r","d","s",".","j","o","i","n"," ","i","s"," ","n","o","t"," ","a"," ","f","u","n","c","t","i","o","n">>)
    ELSE IF vibeAnalysis.moodDescriptors.t # "array"
    THEN Throw(<<"m","o","o","d","D","e","s","c","r","i","p","t","o","r","s",".","j","o","i","n"," ","i","s"," ","n","o","t"," ","a"," ","f","u","n","c","t","i","o","n">>)
    ELSE Return(fallbackData(category, vibeAnalysis.primaryVibe.v,
                             vibeAnalysis.aestheticKeywords.v, vibeAnalysis.moodDescriptors.v))

fallbackCategories == <<"restaurants", "activities", "music", "experiences">>

\* getFallbackRecommendations(vibeAnalysis): categories.map(...)
getFallbackRecommendations(vibeAnalysis) ==
    LET first == getFallbackCategoryItems(fallbackCategories[1], vibeAnalysis)
    IN IF first.threw THEN first
       ELSE Return([i \in 1..Len(fallbackCategories) |->
                [category |-> fallbackCategories[i],
                 items |-> getFallbackCategoryItems(fallbackCategories[i], vibeAnalysis).val]])

----------------------------------------------------------------------------
(* POST /api/analyze: entities of the recommendation endpoint *)

Digits == <<"0","1","2","3","4","5","6","7","8","9">>

RECURSIVE natToString(_)
natToString(n) == IF n < 10 THEN <<Digits[n + 1]>> ELSE natToString(n \div 10) \o <<Digits[(n % 10) + 1]>>

\* `${v}` in a template literal
toString(v) ==
    CASE v.t = "undefined" -> <<"u","n","d","e","f","i","n","e","d">>
      [] v.t = "string" -> v.v
      [] v.t = "number" -> natToString(v.v)
      [] v.t = "array" -> join(v.v, <<",">>)

\* x?.p of an entity's properties: undefined when the entity has none
prop(entity, p) == IF entity.properties.t = "undefined" THEN Undefined ELSE entity.properties[p]

\* generateMatchReason(entity, primaryVibe, keywordMatches)
generateMatchReason(entity, primaryVibe, keywordMatches) ==
    LET name == toString(orElse(entity.name, Str(<<"T","h","i","s"," ","r","e","c","o","m","m","e","n","d","a","t","i","o","n">>)))
        hasKeywordMatch == Len(keywordMatches) > 0
        rating == orElse(prop(entity, "business_rating"), Num(0)).v
        pv == toString(primaryVibe)
    IN IF hasKeywordMatch /\ rating >= 40
       THEN name \o <<" ","p","e","r","f","e","c","t","l","y"," ","c","a","p","t","u","r","e","s"," ","t","h","e"," ">> \o pv \o <<" ","a","e","s","t","h","e","t","i","c"," ","w","i","t","h"," ","h","i","g","h","l","y","-","r","a","t","e","d"," ">>
                 \o join(keywordMatches, <<","," ">>) \o <<" ","e","l","e","m","e","n","t","s">>
       ELSE IF hasKeywordMatch
       THEN name \o <<" ","a","l","i","g","n","s"," ","w","i","t","h"," ","y","o","u","r"," ">> \o pv \o <<" ","v","i","b","e"," ","t","h","r","o","u","g","h"," ","i","t","s"," ">>
                 \o join(keywordMatches, <<","," ">>) \o <<" ","c","h","a","r","a","c","t","e","r","i","s","t","i","c","s">>
       ELSE IF rating >= 40
       THEN name \o <<" ","i","s"," ","a"," ","h","i","g","h","l","y","-","r","a","t","e","d"," ","v","e","n","u","e"," ","t","h","a","t"," ","c","o","m","p","l","e","m","e","n","t","s"," ","t","h","e"," ">> \o pv \o <<" ","c","u","l","t","u","r","a","l"," ","s","e","n","s","i","b","i","l","i","t","y">>
       ELSE name \o <<" ","m","a","t","c","h","e","s"," ","t","h","e"," ">> \o pv \o <<" ","a","e","s","t","h","e","t","i","c"," ","a","n","d"," ","c","u","l","t","u","r","a","l"," ","c","o","n","t","e","x","t">>

\* keyword.toLowerCase().includes(vibeKeyword.toLowerCase()) || the converse
keywordMatch(keyword, vibeKeyword) ==
    \/ includes(toLowerCase(keyword), toLowerCase(vibeKeyword))
    \/ includes(toLowerCase(vibeKeyword), toLowerCase(keyword))

\* variant of confidenceOf: without the cap of Math.min
confidenceUncapped(matches, rating) == 600 + (matches * 100) + (rating * 5)

\* Math.min(0.95, 0.6 + matches * 0.1 + rating * 0.05), in thousandths
confidenceOf(matches, rating) ==
    LET c == 600 + (matches * 100) + (rating * 5) IN IF c > 950 THEN 950 ELSE c

\* transformQlooResponse(qlooEntity, vibeAnalysis); random is what
\* Math.random().toString(36) returns
transformQlooResponse(qlooEntity, vibeAnalysis, random) ==
    LET kw == prop(qlooEntity, "keywords")
    IN IF kw.t \notin {"undefined", "array"}
       THEN Throw(<<"k","e","y","w","o","r","d","s",".","s","l","i","c","e","(",".",".",".",")",".","m","a","p"," ","i","s"," ","n","o","t"," ","a"," ","f","u","n","c","t","i","o","n">>)
       ELSE
       LET keywords == IF kw.t = "undefined" THEN <<>> ELSE slice0(kw.v, 3)
       IN IF Len(keywords) > 0 /\ vibeAnalysis.aestheticKeywords.t # "array"
          THEN Throw(<<"v","i","b","e","A","n","a","l","y","s","i","s",".","a","e","s","t","h","e","t","i","c","K","e","y","w","o","r","d","s",".","s","o","m","e"," ","i","s"," ","n","o","t"," ","a"," ","f","u","n","c","t","i","o","n">>)
          ELSE
          LET name == toString(orElse(qlooEntity.name, Str(<<"R","e","c","o","m","m","e","n","d","e","d"," ","I","t","e","m">>)))
              description == toString(orElse(prop(qlooEntity, "description"),
                                             Str(<<"A"," ","r","e","c","o","m","m","e","n","d","a","t","i","o","n"," ","t","h","a","t"," ","m","a","t","c","h","e","s"," ","y","o","u","r"," ","v","i","b","e">>)))
              address == toString(orElse(prop(qlooEntity, "address"), Str(<<>>)))
              website == toString(orElse(prop(qlooEntity, "website"), Str(<<>>)))
              rating == orElse(prop(qlooEntity, "business_rating"), Num(0)).v
              keywordMatches ==
                  IF Len(keywords) = 0 THEN <<>>
                  ELSE SelectSeq(keywords, LAMBDA k :
                         \E i \in 1..Len(vibeAnalysis.aestheticKeywords.v) :
                            keywordMatch(k, vibeAnalysis.aestheticKeywords.v[i]))
          IN Return([
                id |-> toString(orElse(qlooEntity.entity_id, Str(random))),
                name |-> name,
                description |-> IF Len(address) > 0
                                THEN description \o <<" ","L","o","c","a","t","e","d"," ","a","t"," ">> \o address
                                ELSE description,
                reason |-> generateMatchReason(qlooEntity, vibeAnalysis.primaryVibe, keywordMatches),
                confidence |-> confidenceOf(Len(keywordMatches), rating),
                tags |-> keywords,
                website |-> website,
                rating |-> rating,
                qloo_data |-> [entity_id |-> qlooEntity.entity_id,
                               type |-> qlooEntity.type,
                               subtype |-> qlooEntity.subtype] ])

\* items.map(item => transformQlooResponse(item, vibeAnalysis)).slice(0, 2):
\* every entity is transformed, the first exception ends the map
transformAll(entities, vibeAnalysis, randoms) ==
    LET results == [i \in 1..Len(entities) |->
                       transformQlooResponse(entities[i], vibeAnalysis, randoms[i])]
    IN IF \E i \in 1..Len(entities) : results[i].threw
       THEN results[CHOOSE i \in 1..Len(entities) :
                        results[i].threw /\ \A j \in 1..(i - 1) : ~results[j].threw]
       ELSE Return(slice0([i \in 1..Len(entities) |-> results[i].val], 2))

\* variant of queriedCategories: the endpoint is asked for music as well
queriedCategoriesWithMusic == <<"restaurants", "experiences", "music">>

\* variant of queriedCategories: the endpoint is asked for all four categories
queriedCategoriesOfAll == <<"restaurants", "experiences", "music", "activities">>

\* the categories getRecommendationsFromQloo queries the endpoint for
queriedCategories == <<"restaurants", "experiences">>

\* the categories getRecommendationsFromQloo always fills from the fallback table
appendedCategories == <<"music", "activities">>

----------------------------------------------------------------------------
(* What an outbound fetch can end in *)

\* the body of a 2xx reply of the inference endpoint, as response.json() returns it:
\* an array (first its element 0), an object, or null
Payload(shape, generated_text, caption, text, error) ==
    [shape |-> shape, generated_text |-> generated_text, caption |-> caption,
     text |-> text, error |-> error]

\* a generated text in which /\{[\s\S]*\}/ finds a match: JSON.parse of the match
\* throws (match = "invalid") or returns the object obj (match = "object")
Text(match, obj) == [t |-> "text", match |-> match, obj |-> obj]

\* fetch rejects
NetworkError == [kind |-> "neterr", status |-> 0, result |-> Undefined]
\* response.ok is false
Non2xx == [kind |-> "non2xx", status |-> 503, result |-> Undefined]
\* response.json() rejects
MalformedBody == [kind |-> "badbody", status |-> 200, result |-> Undefined]
\* response.ok and response.json() resolves to result
Ok(result) == [kind |-> "ok", status |-> 200, result |-> result]

FailedOutcomes == {NetworkError, Non2xx, MalformedBody}

\* what the caption model may reply
CaptionOutcomes == FailedOutcomes \cup {
    Ok(Payload("array", Str(<<"A"," ","c","o","z","y"," ","l","o","f","t"," ","w","i","t","h"," ","w","a","r","m"," ","w","o","o","d"," ","f","u","r","n","i","t","u","r","e"," ","a","n","d"," ","p","l","a","n","t","s">>), Undefined, Undefined, Undefined)),
    Ok(Payload("array", Undefined, Str(<<"A"," ","c","o","z","y"," ","l","o","f","t"," ","w","i","t","h"," ","w","a","r","m"," ","w","o","o","d"," ","f","u","r","n","i","t","u","r","e"," ","a","n","d"," ","p","l","a","n","t","s">>), Undefined, Undefined)),
    Ok(Payload("array", Undefined, Undefined, Undefined, Undefined)),
    Ok(Payload("array", Num(42), Undefined, Undefined, Undefined)),
    Ok(Payload("emptyarray", Undefined, Undefined, Undefined, Undefined)),
    Ok(Payload("object", Str(<<"A"," ","c","o","z","y"," ","l","o","f","t"," ","w","i","t","h"," ","w","a","r","m"," ","w","o","o","d"," ","f","u","r","n","i","t","u","r","e"," ","a","n","d"," ","p","l","a","n","t","s">>), Undefined, Undefined, Undefined)),
    Ok(Payload("object", Undefined, Undefined, Undefined, Str(<<"M","o","d","e","l"," ","i","s"," ","l","o","a","d","i","n","g">>))),
    Ok(Payload("object", Undefined, Undefined, Undefined, Undefined)),
    Ok(Payload("null", Undefined, Undefined, Undefined, Undefined)) }

\* analyzeImageWithHF(imageBase64), past its credential check and its fetch
analyzeImageWithHF(outcome) ==
    CASE outcome.kind = "neterr" -> Throw(<<"f","e","t","c","h"," ","f","a","i","l","e","d">>)
      [] outcome.kind = "non2xx" -> Throw(<<"H","u","g","g","i","n","g"," ","F","a","c","e"," ","I","m","a","g","e"," ","A","P","I"," ","e","r","r","o","r",":"," ">> \o natToString(outcome.status))
      [] outcome.kind = "badbody" -> Throw(<<"U","n","e","x","p","e","c","t","e","d"," ","t","o","k","e","n"," ","i","n"," ","J","S","O","N">>)
      [] OTHER ->
         LET result == outcome.result
         IN CASE result.shape = "array" ->
                   Return(orElse(result.generated_text, orElse(result.caption,
                          orElse(result.text, Str(<<"U","n","a","b","l","e"," ","t","o"," ","a","n","a","l","y","z","e"," ","i","m","a","g","e">>)))))
              [] result.shape = "null" -> Throw(<<"C","a","n","n","o","t"," ","r","e","a","d"," ","p","r","o","p","e","r","t","i","e","s"," ","o","f"," ","n","u","l","l">>)
              [] result.shape = "object" /\ truthy(result.generated_text) ->
                   Return(result.generated_text)
              [] result.shape = "object" /\ truthy(result.error) ->
                   Throw(<<"H","u","g","g","i","n","g"," ","F","a","c","e"," ","e","r","r","o","r",":"," ">> \o toString(result.error))
              [] OTHER -> Return(Str(<<"A"," ","s","p","a","c","e"," ","r","e","q","u","i","r","i","n","g"," ","c","u","l","t","u","r","a","l"," ","a","n","a","l","y","s","i","s">>))

\* Step 1 of POST: the description, the fixed one when analyzeImageWithHF throws
stepDescription(outcome) ==
    LET r == analyzeImageWithHF(outcome) IN IF r.threw THEN fallbackDescription ELSE r.val

\* a parsed analysis object with the five fields, Undefined for a missing one
Analysis(pv, sv, cc, ak, md) ==
    [primaryVibe |-> pv, secondaryVibes |-> sv, culturalContext |-> cc,
     aestheticKeywords |-> ak, moodDescriptors |-> md]

\* objects the language model's text may hold
VibeObjects == {
    Analysis(Str(<<"i","n","d","u","s","t","r","i","a","l"," ","c","h","i","c">>), Arr(<<<<"u","r","b","a","n">>>>), Str(<<"C","o","n","v","e","r","t","e","d"," ","f","a","c","t","o","r","y">>),
             Arr(<<<<"m","e","t","a","l">>, <<"m","o","d","e","r","n">>, <<"r","u","s","t","i","c">>, <<"g","l","a","s","s">>>>), Arr(<<<<"e","d","g","y">>, <<"c","r","e","a","t","i","v","e">>, <<"u","r","b","a","n">>>>)),
    Analysis(Str(<<>>), Arr(<<>>), Str(<<>>), Arr(<<>>), Arr(<<>>)),
    Analysis(Undefined, Arr(<<<<"u","r","b","a","n">>>>), Str(<<"C","o","n","v","e","r","t","e","d"," ","f","a","c","t","o","r","y">>), Arr(<<<<"m","e","t","a","l">>>>), Arr(<<<<"e","d","g","y">>>>)),
    Analysis(Str(<<"c","o","z","y"," ","c","a","s","u","a","l">>), Arr(<<<<"s","o","f","t">>>>), Str(<<"H","o","m","e","l","y">>), Undefined, Arr(<<<<"r","e","l","a","x","e","d">>>>)),
    Analysis(Str(<<"c","o","z","y"," ","c","a","s","u","a","l">>), Arr(<<<<"s","o","f","t">>>>), Str(<<"H","o","m","e","l","y">>), Arr(<<<<"w","a","r","m">>>>), Undefined),
    Analysis(Str(<<"c","o","z","y"," ","c","a","s","u","a","l">>), Undefined, Undefined, Arr(<<<<"w","a","r","m">>>>), Arr(<<<<"r","e","l","a","x","e","d">>>>)),
    Analysis(Str(<<"c","o","z","y"," ","c","a","s","u","a","l">>), Arr(<<<<"s","o","f","t">>>>), Str(<<"H","o","m","e","l","y">>), Str(<<"w","a","r","m">>), Arr(<<<<"r","e","l","a","x","e","d">>>>)),
    Analysis(Undefined, Undefined, Undefined, Undefined, Undefined) }

\* what the language model of /api/analyze may reply
VibeOutcomes == FailedOutcomes \cup
    {Ok(Payload("array", Text("object", o), Undefined, Undefined, Undefined)) : o \in VibeObjects} \cup {
    Ok(Payload("array", Text("invalid", Undefined), Undefined, Undefined, Undefined)),
    Ok(Payload("array", Str(<<"T","h","e"," ","s","p","a","c","e"," ","f","e","e","l","s"," ","m","o","d","e","r","n">>), Undefined, Undefined, Undefined)),
    Ok(Payload("array", Num(7), Undefined, Undefined, Undefined)),
    Ok(Payload("emptyarray", Undefined, Undefined, Undefined, Undefined)),
    Ok(Payload("object", Text("object", Analysis(Str(<<"l","u","x","u","r","y"," ","e","l","e","g","a","n","t">>), Arr(<<<<"g","o","l","d">>>>), Str(<<"O","p","u","l","e","n","t">>),
                                               Arr(<<<<"e","l","e","g","a","n","t">>>>), Arr(<<<<"r","e","f","i","n","e","d">>>>))),
               Undefined, Undefined, Undefined)),
    Ok(Payload("null", Undefined, Undefined, Undefined, Undefined)) }

\* the generatedText both handlers extract from a 2xx reply; result.generated_text
\* of null throws
generatedTextOf(result) ==
    CASE result.shape = "array" -> Return(orElse(result.generated_text, Str(<<>>)))
      [] result.shape = "null" -> Throw(<<"C","a","n","n","o","t"," ","r","e","a","d"," ","p","r","o","p","e","r","t","i","e","s"," ","o","f"," ","n","u","l","l">>)
      [] result.shape = "object" /\ truthy(result.generated_text) -> Return(result.generated_text)
      [] OTHER -> Return(Str(<<>>))

\* the try block of analyzeVibeWithHF: the object JSON.parse returned, or
\* Undefined when the block falls through to the keyword analyzer
parsedVibe(outcome) ==
    IF outcome.kind # "ok" THEN Undefined
    ELSE LET g == generatedTextOf(outcome.result)
         IN IF g.threw THEN Undefined
            ELSE IF g.val.t = "text" /\ g.val.match = "object" THEN g.val.obj
            ELSE Undefined

\* analyzeVibeWithHF(imageDescription), past its fetch
analyzeVibeWithHF(imageDescription, outcome) ==
    LET parsed == parsedVibe(outcome)
    IN IF parsed # Undefined THEN Return(parsed) ELSE intelligentVibeAnalysis(imageDescription)

\* Step 2 of POST: the analysis, the fixed one when analyzeVibeWithHF throws
stepVibeAnalysis(imageDescription, outcome) ==
    LET r == analyzeVibeWithHF(imageDescription, outcome)
    IN IF r.threw THEN defaultVibeAnalysis ELSE r.val

----------------------------------------------------------------------------
(* Bounds of the environment *)

\* the most entities one reply of the recommendation endpoint holds
MaxEntities == 3

\* values Date.now() - startTime may take, in milliseconds
ElapsedSamples == {0, 1834}

\* strings Math.random().toString(36) may return
RandomIds == {<<"0",".","k","3","j","9","x","q">>, <<"0",".","7","z","u","1","a","b">>}

Entity(entity_id, name, type, subtype, properties) ==
    [entity_id |-> entity_id, name |-> name, type |-> type, subtype |-> subtype,
     properties |-> properties]

Properties(description, address, website, business_rating, keywords) ==
    [t |-> "object", description |-> description, address |-> address,
     website |-> website, business_rating |-> business_rating, keywords |-> keywords]

\* place entities the recommendation endpoint may return
PlacePool == <<
    Entity(Str(<<"E","1">>), Str(<<"L","o","f","t"," ","D","i","n","e","r">>), Str(<<"u","r","n",":","e","n","t","i","t","y",":","p","l","a","c","e">>), Str(<<"r","e","s","t","a","u","r","a","n","t">>),
           Properties(Str(<<"O","p","e","n"," ","k","i","t","c","h","e","n"," ","i","n"," ","a"," ","f","o","r","m","e","r"," ","w","a","r","e","h","o","u","s","e">>), Str(<<"1"," ","M","a","i","n"," ","S","t">>), Str(<<"h","t","t","p","s",":","/","/","l","o","f","t",".","e","x","a","m","p","l","e">>),
                      Num(45), Arr(<<<<"M","o","d","e","r","n">>, <<"m","e","t","a","l","w","o","r","k">>, <<"b","r","u","n","c","h">>, <<"r","u","s","t","i","c">>>>))),
    Entity(Undefined, Undefined, Undefined, Undefined, Undefined),
    Entity(Str(<<"E","3">>), Str(<<"C","o","r","n","e","r"," ","C","a","f","e">>), Str(<<"u","r","n",":","e","n","t","i","t","y",":","p","l","a","c","e">>), Undefined,
           Properties(Undefined, Undefined, Undefined, Undefined, Arr(<<>>))) >>

\* an entity whose keywords value is no array
MalformedPlace ==
    Entity(Str(<<"E","4">>), Str(<<"G","l","a","s","s"," ","H","o","u","s","e">>), Str(<<"u","r","n",":","e","n","t","i","t","y",":","p","l","a","c","e">>), Str(<<"v","e","n","u","e">>),
           Properties(Str(<<"A"," ","g","r","e","e","n","h","o","u","s","e"," ","v","e","n","u","e">>), Undefined, Undefined, Num(38), Str(<<"g","l","a","s","s">>)))

\* the first n entities of the pool read cyclically from position from
entitiesFrom(pool, from, n) == [i \in 1..n |-> pool[((from + i - 2) % Len(pool)) + 1]]

PlaceLists == {entitiesFrom(PlacePool, 1, n) : n \in 0..MaxEntities} \cup {<<MalformedPlace>>}

\* what the recommendation endpoint may reply to /api/analyze
PlaceOutcomes == FailedOutcomes \cup {Ok(es) : es \in PlaceLists}

\* the random strings drawn while entities are transformed: Math.random is called
\* only for an entity without entity_id
RandomDraws(entities) ==
    {r \in [1..Len(entities) -> RandomIds] :
        \A i \in 1..Len(entities) :
            truthy(entities[i].entity_id) => r[i] = <<"0",".","k","3","j","9","x","q">>}

\* fetchQlooRecommendations(...), past its fetch: data.results?.entities || []
fetchQlooRecommendations(outcome) ==
    CASE outcome.kind = "neterr" -> Throw(<<"f","e","t","c","h"," ","f","a","i","l","e","d">>)
      [] outcome.kind = "non2xx" -> Throw(<<"Q","l","o","o"," ","A","P","I"," ","e","r","r","o","r",":"," ">> \o natToString(outcome.status))
      [] outcome.kind = "badbody" -> Throw(<<"U","n","e","x","p","e","c","t","e","d"," ","t","o","k","e","n"," ","i","n"," ","J","S","O","N">>)
      [] OTHER -> Return(outcome.result)

\* variant of categoryEntry: the catch takes the fallback items of music
categoryEntryFallbackOfMusic(category, vibeAnalysis, outcome, randoms) ==
    LET fetched == fetchQlooRecommendations(outcome)
        items == IF fetched.threw THEN fetched
                 ELSE transformAll(fetched.val, vibeAnalysis, randoms)
    IN IF ~items.threw
       THEN Return([category |-> category, items |-> items.val])
       ELSE LET fb == getFallbackCategoryItems("music", vibeAnalysis)
            IN IF fb.threw THEN fb
               ELSE Return([category |-> category, items |-> fb.val])

\* one pass of the for loop of getRecommendationsFromQloo, past the fetch: the
\* entry pushed for the category, or the exception that leaves the function
categoryEntry(category, vibeAnalysis, outcome, randoms) ==
    LET fetched == fetchQlooRecommendations(outcome)
        items == IF fetched.threw THEN fetched
                 ELSE transformAll(fetched.val, vibeAnalysis, randoms)
    IN IF ~items.threw
       THEN Return([category |-> category, items |-> items.val])
       ELSE LET fb == getFallbackCategoryItems(category, vibeAnalysis)
            IN IF fb.threw THEN fb
               ELSE Return([category |-> category, items |-> fb.val])

\* the two pushes after the loop: music and activities from the fallback table
appendFallbackCategories(recommendations, vibeAnalysis) ==
    LET music == getFallbackCategoryItems(appendedCategories[1], vibeAnalysis)
        activities == getFallbackCategoryItems(appendedCategories[2], vibeAnalysis)
    IN IF music.threw THEN music
       ELSE IF activities.threw THEN activities
       ELSE Return(recommendations \o
                <<[category |-> appendedCategories[1], items |-> music.val],
                  [category |-> appendedCategories[2], items |-> activities.val]>>)

\* aestheticKeywords.slice(0, 2), the argument evaluated before each fetch, throws
\* on a value without slice
sliceThrows(vibeAnalysis) == vibeAnalysis.aestheticKeywords.t \notin {"array", "string"}

----------------------------------------------------------------------------
(* Responses *)

NoResponse == [status |-> 0, body |-> Undefined]

\* NextResponse.json({ error } as APIError, { status })
errorResponse(status, error) == [status |-> status, body |-> [error |-> error]]

\* variant of criticalResponse: details is the text for a value that is no Error
criticalResponseUnknown(error, details, code) ==
    [status |-> 500, body |-> [error |-> error, details |-> <<"U","n","k","n","o","w","n"," ","e","r","r","o","r"," ","o","c","c","u","r","r","e","d">>, code |-> code]]

\* the catch-all of POST: error, details: error.message, code
criticalResponse(error, details, code) ==
    [status |-> 500, body |-> [error |-> error, details |-> details, code |-> code]]

\* NextResponse.json(response) of /api/analyze
analysisResponse(imageDescription, vibeAnalysis, recommendations, processingTime) ==
    [status |-> 200,
     body |-> [imageDescription |-> imageDescription, vibeAnalysis |-> vibeAnalysis,
               recommendations |-> recommendations, processingTime |-> processingTime]]

\* Step 3 of POST from the result of its try block on: on an exception the catch
\* calls getFallbackRecommendations, whose own exception reaches the outer catch
imageResponse(imageDescription, vibeAnalysis, tried, processingTime) ==
    LET recovered == IF tried.threw THEN getFallbackRecommendations(vibeAnalysis) ELSE tried
    IN IF recovered.threw
       THEN criticalResponse(<<"A","n","a","l","y","s","i","s"," ","f","a","i","l","e","d">>, recovered.msg, <<"A","N","A","L","Y","S","I","S","_","E","R","R","O","R">>)
       ELSE analysisResponse(imageDescription, vibeAnalysis, recovered.val, processingTime)

----------------------------------------------------------------------------
(* The request and the call log *)

\* request.json() rejects (parsed = FALSE) or resolves to an object whose
\* required field (imageBase64, movieName) is field
Body(parsed, field) == [parsed |-> parsed, field |-> field]

ImageBodies == {
    Body(FALSE, Undefined),
    Body(TRUE, Undefined),
    Body(TRUE, Str(<<>>)),
    Body(TRUE, Str(<<"i","V","B","O","R","w","0","K","G","g","o","=">>)) }

\* the local variables of a handler before it has assigned any
NoLocals == [imageDescription |-> Undefined, vibeAnalysis |-> Undefined,
             recommendations |-> <<>>, category |-> 0,
             movieAnalysis |-> Undefined, vibeParameters |-> Undefined, model |-> 0]

\* a fetch is issued to the dependency dep
logIssue(l, call, dep) ==
    Append(l, [call |-> call, dep |-> dep, settled |-> FALSE, ok |-> FALSE, used |-> FALSE,
               result |-> Undefined, answer |-> "none"])

\* the last call issued settles; ok: with a 2xx reply whose body parsed; used: its
\* stage took its output rather than the substitute; result: what the function
\* that awaited it ended in (kept for the model calls of analyzeMovieWithHF);
\* answer is kept for the movie queries
logSettle(l, kind, used, result) ==
    [l EXCEPT ![Len(l)].settled = TRUE, ![Len(l)].ok = (kind = "ok"),
              ![Len(l)].used = used, ![Len(l)].result = result]

\* the last call issued was a movie query and settles: answer is how, "empty"
\* for a 2xx reply without entities and "entities" for one with some
logAnswer(l, outcome, used) ==
    [logSettle(l, outcome.kind, used, Undefined) EXCEPT ![Len(l)].answer =
        IF outcome.kind # "ok" THEN outcome.kind
        ELSE IF Len(outcome.result) = 0 THEN "empty" ELSE "entities"]

----------------------------------------------------------------------------
(* POST /api/analyze *)

\* the handler returns resp
Finish(resp, l) ==
    /\ pc' = "done"
    /\ response' = resp
    /\ inflight' = {}
    /\ log' = l

\* variant of Suspend: the fetch is started without awaiting the one before it
SuspendWithoutAwait(at, call, dep, l) ==
    /\ pc' = at
    /\ inflight' = inflight \cup {call}
    /\ log' = logIssue(l, call, dep)
    /\ response' = response

\* the handler issues the fetch `call` and suspends at it
Suspend(at, call, dep, l) ==
    /\ pc' = at
    /\ inflight' = {call}
    /\ log' = logIssue(l, call, dep)
    /\ response' = response

\* variant of imagePrecheck: the credential check of lines 464-470 left out
imagePrecheckNoKeyCheck(b, key) ==
    IF ~b.parsed
    THEN criticalResponse(<<"A","n","a","l","y","s","i","s"," ","f","a","i","l","e","d">>, <<"U","n","e","x","p","e","c","t","e","d"," ","e","n","d"," ","o","f"," ","J","S","O","N"," ","i","n","p","u","t">>, <<"A","N","A","L","Y","S","I","S","_","E","R","R","O","R">>)
    ELSE IF ~truthy(b.field)
    THEN errorResponse(400, <<"N","o"," ","i","m","a","g","e"," ","p","r","o","v","i","d","e","d">>)
    ELSE NoResponse

\* lines 451-470: what POST returns before Step 1, NoResponse when it goes on:
\* the body that does not parse reaches the outer catch, then the input check,
\* then the credential check
imagePrecheck(b, key) ==
    IF ~b.parsed
    THEN criticalResponse(<<"A","n","a","l","y","s","i","s"," ","f","a","i","l","e","d">>, <<"U","n","e","x","p","e","c","t","e","d"," ","e","n","d"," ","o","f"," ","J","S","O","N"," ","i","n","p","u","t">>, <<"A","N","A","L","Y","S","I","S","_","E","R","R","O","R">>)
    ELSE IF ~truthy(b.field)
    THEN errorResponse(400, <<"N","o"," ","i","m","a","g","e"," ","p","r","o","v","i","d","e","d">>)
    ELSE IF ~key
    THEN errorResponse(500, <<"S","e","r","v","e","r"," ","c","o","n","f","i","g","u","r","a","t","i","o","n"," ","e","r","r","o","r",":"," ","M","i","s","s","i","n","g"," ","H","u","g","g","i","n","g"," ","F","a","c","e"," ","A","P","I"," ","k","e","y">>)
    ELSE NoResponse

\* lines 449-476: body, input check, credential check, the caption fetch
ImgStart ==
    /\ endpoint = "analyze"
    /\ pc = "start"
    /\ UNCHANGED <<calls, page, endpoint, body, hfKey, qlooKey, local>>
    /\ IF imagePrecheck(body, hfKey) # NoResponse
       THEN Finish(imagePrecheck(body, hfKey), log)
       ELSE Suspend("caption", "caption", "vision", log)

\* lines 476-488 and 64-103: the caption fetch settles, Step 1 ends, the
\* language-model fetch of Step 2 is issued
ImgCaptionSettles ==
    /\ endpoint = "analyze"
    /\ pc = "caption"
    /\ \E outcome \in CaptionOutcomes :
        /\ local' = [local EXCEPT !.imageDescription = stepDescription(outcome)]
        /\ Suspend("vibe", "vibe", "language",
                   logSettle(log, outcome.kind, ~analyzeImageWithHF(outcome).threw, Undefined))
    /\ UNCHANGED <<calls, page, endpoint, body, hfKey, qlooKey>>

RECURSIVE qlooLoop(_, _, _)
\* the for loop of getRecommendationsFromQloo from pass k on, up to its next
\* fetch (at |-> the pass that suspends) or its end (at |-> 0, with the result)
qlooLoop(k, recommendations, vibeAnalysis) ==
    IF k > Len(queriedCategories)
    THEN [at |-> 0, recommendations |-> recommendations,
          result |-> appendFallbackCategories(recommendations, vibeAnalysis)]
    ELSE IF ~sliceThrows(vibeAnalysis)
    THEN [at |-> k, recommendations |-> recommendations, result |-> Undefined]
    ELSE LET fb == getFallbackCategoryItems(queriedCategories[k], vibeAnalysis)
         IN IF fb.threw
            THEN [at |-> 0, recommendations |-> recommendations, result |-> fb]
            ELSE qlooLoop(k + 1,
                          Append(recommendations,
                                 [category |-> queriedCategories[k], items |-> fb.val]),
                          vibeAnalysis)

\* the handler goes on with the loop state `next`: suspends at the fetch of the
\* next category, or leaves Step 3 and returns
ImgContinue(next, vibeAnalysis, l, elapsed) ==
    IF next.at > 0
    THEN /\ local' = [local EXCEPT !.vibeAnalysis = vibeAnalysis,
                                   !.recommendations = next.recommendations,
                                   !.category = next.at]
         /\ Suspend("qloo", queriedCategories[next.at], "recommendation", l)
    ELSE /\ local' = [local EXCEPT !.vibeAnalysis = vibeAnalysis,
                                   !.recommendations = next.recommendations,
                                   !.category = 0]
         /\ Finish(imageResponse(local.imageDescription, vibeAnalysis, next.result, elapsed), l)

\* lines 105-131, 488-513 and 194-226: the language-model fetch settles, Step 2
\* ends, Step 3 starts: without the recommendation credential it is the fallback
\* table, with it the loop of getRecommendationsFromQloo
ImgVibeSettles ==
    /\ endpoint = "analyze"
    /\ pc = "vibe"
    /\ \E outcome \in VibeOutcomes, elapsed \in ElapsedSamples :
        LET vibeAnalysis == stepVibeAnalysis(local.imageDescription, outcome)
            l == logSettle(log, outcome.kind, parsedVibe(outcome) # Undefined, Undefined)
        IN IF qlooKey
           THEN ImgContinue(qlooLoop(1, <<>>, vibeAnalysis), vibeAnalysis, l, elapsed)
           ELSE /\ local' = [local EXCEPT !.vibeAnalysis = vibeAnalysis]
                /\ Finish(imageResponse(local.imageDescription, vibeAnalysis,
                                        getFallbackRecommendations(vibeAnalysis), elapsed), l)
    /\ UNCHANGED <<calls, page, endpoint, body, hfKey, qlooKey>>

\* lines 221-256 and 508-530: the fetch of a category settles; its entry is
\* pushed (endpoint items or fallback items) and the loop goes on
ImgQlooSettles ==
    /\ endpoint = "analyze"
    /\ pc = "qloo"
    /\ \E outcome \in PlaceOutcomes, elapsed \in ElapsedSamples :
       \E randoms \in RandomDraws(IF outcome.kind = "ok" THEN outcome.result ELSE <<>>) :
        LET category == queriedCategories[local.category]
            fetched == fetchQlooRecommendations(outcome)
            fromEndpoint == ~fetched.threw
                /\ ~transformAll(fetched.val, local.vibeAnalysis, randoms).threw
            entry == categoryEntry(category, local.vibeAnalysis, outcome, randoms)
            l == logSettle(log, outcome.kind, fromEndpoint, Undefined)
        IN IF entry.threw
           THEN /\ local' = local
                /\ Finish(imageResponse(local.imageDescription, local.vibeAnalysis, entry, elapsed), l)
           ELSE ImgContinue(qlooLoop(local.category + 1,
                                     Append(local.recommendations, entry.val),
                                     local.vibeAnalysis),
                            local.vibeAnalysis, l, elapsed)
    /\ UNCHANGED <<calls, page, endpoint, body, hfKey, qlooKey>>

----------------------------------------------------------------------------
(* POST /api/analyze-movie: the built-in analysis *)

MovieAnalysis(summary, themes, genres, culturalKeywords) ==
    [summary |-> summary, themes |-> themes, genres |-> genres,
     culturalKeywords |-> culturalKeywords]

\* movieDatabase
movieDatabase == <<
    [key |-> <<"b","l","a","d","e"," ","r","u","n","n","e","r"," ","2","0","4","9">>, analysis |-> MovieAnalysis(
        Str(<<"A"," ","v","i","s","u","a","l","l","y"," ","s","t","u","n","n","i","n","g"," ","s","c","i","-","f","i"," ","m","a","s","t","e","r","p","i","e","c","e"," ","e","x","p","l","o","r","i","n","g"," ","t","h","e","m","e","s"," ","o","f"," ","i","d","e","n","t","i","t","y",","," ","h","u","m","a","n","i","t","y",","," ","a","n","d"," ","w","h","a","t"," ","i","t"," ","m","e","a","n","s"," ","t","o"," ","b","e"," ","a","l","i","v","e"," ","i","n"," ","a"," ","d","y","s","t","o","p","i","a","n"," ","f","u","t","u","r","e",".">>),
        Arr(<<<<"i","d","e","n","t","i","t","y">>, <<"h","u","m","a","n","i","t","y">>, <<"a","r","t","i","f","i","c","i","a","l"," ","i","n","t","e","l","l","i","g","e","n","c","e">>, <<"d","y","s","t","o","p","i","a">>, <<"e","x","i","s","t","e","n","t","i","a","l","i","s","m">>>>),
        Arr(<<<<"s","c","i","-","f","i">>, <<"d","r","a","m","a">>, <<"t","h","r","i","l","l","e","r">>>>),
        Arr(<<<<"c","y","b","e","r","p","u","n","k">>, <<"n","e","o","-","n","o","i","r">>, <<"p","h","i","l","o","s","o","p","h","i","c","a","l">>, <<"v","i","s","u","a","l"," ","s","p","e","c","t","a","c","l","e">>, <<"D","e","n","i","s"," ","V","i","l","l","e","n","e","u","v","e">>>>))],
    [key |-> <<"t","h","e"," ","g","r","a","n","d"," ","b","u","d","a","p","e","s","t"," ","h","o","t","e","l">>, analysis |-> MovieAnalysis(
        Str(<<"A"," ","w","h","i","m","s","i","c","a","l"," ","a","n","d"," ","m","e","t","i","c","u","l","o","u","s","l","y"," ","c","r","a","f","t","e","d"," ","c","o","m","e","d","y","-","d","r","a","m","a"," ","a","b","o","u","t"," ","f","r","i","e","n","d","s","h","i","p",","," ","l","o","y","a","l","t","y",","," ","a","n","d"," ","t","h","e"," ","e","n","d"," ","o","f"," ","a","n"," ","e","r","a",","," ","t","o","l","d"," ","t","h","r","o","u","g","h"," ","W","e","s"," ","A","n","d","e","r","s","o","n","'","s"," ","d","i","s","t","i","n","c","t","i","v","e"," ","v","i","s","u","a","l"," ","s","t","y","l","e",".">>),
        Arr(<<<<"f","r","i","e","n","d","s","h","i","p">>, <<"n","o","s","t","a","l","g","i","a">>, <<"E","u","r","o","p","e","a","n"," ","c","u","l","t","u","r","e">>, <<"c","l","a","s","s">>, <<"l","o","y","a","l","t","y">>>>),
        Arr(<<<<"c","o","m","e","d","y">>, <<"d","r","a","m","a">>, <<"a","d","v","e","n","t","u","r","e">>>>),
        Arr(<<<<"W","e","s"," ","A","n","d","e","r","s","o","n">>, <<"s","y","m","m","e","t","r","i","c","a","l">>, <<"p","a","s","t","e","l"," ","c","o","l","o","r","s">>, <<"E","u","r","o","p","e","a","n">>, <<"w","h","i","m","s","i","c","a","l">>>>))],
    [key |-> <<"s","p","i","r","i","t","e","d"," ","a","w","a","y">>, analysis |-> MovieAnalysis(
        Str(<<"A"," ","m","a","g","i","c","a","l"," ","c","o","m","i","n","g","-","o","f","-","a","g","e"," ","s","t","o","r","y"," ","a","b","o","u","t"," ","a"," ","y","o","u","n","g"," ","g","i","r","l"," ","n","a","v","i","g","a","t","i","n","g"," ","a"," ","s","p","i","r","i","t"," ","w","o","r","l","d",","," ","e","x","p","l","o","r","i","n","g"," ","t","h","e","m","e","s"," ","o","f"," ","e","n","v","i","r","o","n","m","e","n","t","a","l","i","s","m",","," ","f","a","m","i","l","y",","," ","a","n","d"," ","g","r","o","w","i","n","g"," ","u","p",".">>),
        Arr(<<<<"c","o","m","i","n","g"," ","o","f"," ","a","g","e">>, <<"e","n","v","i","r","o","n","m","e","n","t","a","l","i","s","m">>, <<"f","a","m","i","l","y">>, <<"c","o","u","r","a","g","e">>, <<"t","r","a","d","i","t","i","o","n"," ","v","s"," ","m","o","d","e","r","n","i","t","y">>>>),
        Arr(<<<<"a","n","i","m","a","t","i","o","n">>, <<"f","a","n","t","a","s","y">>, <<"f","a","m","i","l","y">>>>),
        Arr(<<<<"S","t","u","d","i","o"," ","G","h","i","b","l","i">>, <<"J","a","p","a","n","e","s","e"," ","f","o","l","k","l","o","r","e">>, <<"h","a","n","d","-","d","r","a","w","n"," ","a","n","i","m","a","t","i","o","n">>, <<"M","i","y","a","z","a","k","i">>, <<"m","a","g","i","c","a","l"," ","r","e","a","l","i","s","m">>>>))],
    [key |-> <<"p","a","r","a","s","i","t","e">>, analysis |-> MovieAnalysis(
        Str(<<"A"," ","d","a","r","k","l","y"," ","c","o","m","i","c"," ","t","h","r","i","l","l","e","r"," ","e","x","a","m","i","n","i","n","g"," ","c","l","a","s","s"," ","i","n","e","q","u","a","l","i","t","y"," ","a","n","d"," ","s","o","c","i","a","l"," ","s","t","r","a","t","i","f","i","c","a","t","i","o","n"," ","t","h","r","o","u","g","h"," ","t","h","e"," ","s","t","o","r","y"," ","o","f"," ","t","w","o"," ","f","a","m","i","l","i","e","s"," ","f","r","o","m"," ","d","i","f","f","e","r","e","n","t"," ","e","c","o","n","o","m","i","c"," ","b","a","c","k","g","r","o","u","n","d","s",".">>),
        Arr(<<<<"c","l","a","s","s"," ","s","t","r","u","g","g","l","e">>, <<"i","n","e","q","u","a","l","i","t","y">>, <<"s","o","c","i","a","l"," ","c","o","m","m","e","n","t","a","r","y">>, <<"f","a","m","i","l","y"," ","d","y","n","a","m","i","c","s">>, <<"s","u","r","v","i","v","a","l">>>>),
        Arr(<<<<"t","h","r","i","l","l","e","r">>, <<"d","r","a","m","a">>, <<"d","a","r","k"," ","c","o","m","e","d","y">>>>),
        Arr(<<<<"K","o","r","e","a","n"," ","c","i","n","e","m","a">>, <<"B","o","n","g"," ","J","o","o","n","-","h","o">>, <<"s","o","c","i","a","l"," ","i","n","e","q","u","a","l","i","t","y">>, <<"d","a","r","k"," ","h","u","m","o","r">>, <<"a","r","c","h","i","t","e","c","t","u","r","a","l"," ","s","y","m","b","o","l","i","s","m">>>>))] >>

\* lower-case property names every object literal inherits from Object.prototype:
\* table[name] is a truthy value that is none of the table's entries
inheritedKeys == {<<"c","o","n","s","t","r","u","c","t","o","r">>, <<"_","_","p","r","o","t","o","_","_">>}

\* generateFallbackAnalysis(movieName)
generateFallbackAnalysis(movieName) ==
    LET lowerName == toLowerCase(movieName)
        branch == IF includes(lowerName, <<"s","t","a","r">>) \/ includes(lowerName, <<"s","p","a","c","e">>) \/ includes(lowerName, <<"g","a","l","a","x","y">>)
                  THEN 1
                  ELSE IF includes(lowerName, <<"l","o","v","e">>) \/ includes(lowerName, <<"h","e","a","r","t">>)
                  THEN 2
                  ELSE IF includes(lowerName, <<"d","a","r","k">>) \/ includes(lowerName, <<"n","i","g","h","t">>)
                  THEN 3
                  ELSE 0
        themes == <<<<"d","r","a","m","a">>, <<"c","h","a","r","a","c","t","e","r"," ","d","e","v","e","l","o","p","m","e","n","t">>>> \o
            (CASE branch = 1 -> <<<<"a","d","v","e","n","t","u","r","e">>, <<"h","e","r","o","i","s","m">>, <<"g","o","o","d"," ","v","s"," ","e","v","i","l">>>>
               [] branch = 2 -> <<<<"r","o","m","a","n","c","e">>, <<"r","e","l","a","t","i","o","n","s","h","i","p","s">>, <<"l","o","v","e">>>>
               [] branch = 3 -> <<<<"m","y","s","t","e","r","y">>, <<"s","u","s","p","e","n","s","e">>, <<"p","s","y","c","h","o","l","o","g","i","c","a","l">>>>
               [] OTHER -> <<>>)
        genres == <<<<"d","r","a","m","a">>>> \o
            (CASE branch = 1 -> <<<<"s","c","i","-","f","i">>, <<"a","d","v","e","n","t","u","r","e">>>>
               [] branch = 2 -> <<<<"r","o","m","a","n","c","e">>, <<"d","r","a","m","a">>>>
               [] branch = 3 -> <<<<"t","h","r","i","l","l","e","r">>, <<"m","y","s","t","e","r","y">>>>
               [] OTHER -> <<>>)
        culturalKeywords == <<<<"c","i","n","e","m","a","t","i","c">>, <<"s","t","o","r","y","t","e","l","l","i","n","g">>>> \o
            (CASE branch = 1 -> <<<<"s","p","a","c","e"," ","o","p","e","r","a">>, <<"s","p","e","c","i","a","l"," ","e","f","f","e","c","t","s">>>>
               [] branch = 2 -> <<<<"r","o","m","a","n","t","i","c">>, <<"e","m","o","t","i","o","n","a","l">>>>
               [] branch = 3 -> <<<<"a","t","m","o","s","p","h","e","r","i","c">>, <<"n","o","i","r">>>>
               [] OTHER -> <<>>)
    IN MovieAnalysis(
        Str(<<"A"," ","c","o","m","p","e","l","l","i","n","g"," ">> \o genres[1] \o <<" ","t","h","a","t"," ","e","x","p","l","o","r","e","s"," ","t","h","e","m","e","s"," ","o","f"," ">> \o join(slice0(themes, 3), <<","," ">>)
            \o <<","," ","o","f","f","e","r","i","n","g"," ","a","u","d","i","e","n","c","e","s"," ","a"," ","t","h","o","u","g","h","t","f","u","l"," ","c","i","n","e","m","a","t","i","c"," ","e","x","p","e","r","i","e","n","c","e",".">>),
        Arr(slice0(themes, 5)), Arr(slice0(genres, 3)), Arr(slice0(culturalKeywords, 5)))

\* intelligentMovieAnalysis(movieName): the table entry when movieDatabase[lower]
\* is truthy, which it also is for an inherited property, an object with none of
\* the four fields
intelligentMovieAnalysis(movieName) ==
    LET lowerMovieName == toLowerCase(movieName)
    IN IF \E i \in 1..Len(movieDatabase) : movieDatabase[i].key = lowerMovieName
       THEN movieDatabase[CHOOSE i \in 1..Len(movieDatabase) : movieDatabase[i].key = lowerMovieName].analysis
       ELSE IF lowerMovieName \in inheritedKeys
       THEN MovieAnalysis(Undefined, Undefined, Undefined, Undefined)
       ELSE generateFallbackAnalysis(movieName)

\* audienceMap
audienceMap == <<
    [genre |-> <<"s","c","i","-","f","i">>, audiences |-> <<<<"t","e","c","h"," ","e","n","t","h","u","s","i","a","s","t","s">>, <<"s","c","i","-","f","i"," ","f","a","n","s">>, <<"y","o","u","n","g"," ","a","d","u","l","t","s">>>>],
    [genre |-> <<"r","o","m","a","n","c","e">>, audiences |-> <<<<"c","o","u","p","l","e","s">>, <<"y","o","u","n","g"," ","a","d","u","l","t","s">>, <<"d","a","t","e"," ","n","i","g","h","t">>>>],
    [genre |-> <<"a","c","t","i","o","n">>, audiences |-> <<<<"a","c","t","i","o","n"," ","f","a","n","s">>, <<"y","o","u","n","g"," ","m","a","l","e","s">>, <<"t","h","r","i","l","l"," ","s","e","e","k","e","r","s">>>>],
    [genre |-> <<"d","r","a","m","a">>, audiences |-> <<<<"g","e","n","e","r","a","l"," ","a","u","d","i","e","n","c","e">>, <<"f","i","l","m"," ","e","n","t","h","u","s","i","a","s","t","s">>, <<"m","a","t","u","r","e"," ","v","i","e","w","e","r","s">>>>],
    [genre |-> <<"c","o","m","e","d","y">>, audiences |-> <<<<"g","e","n","e","r","a","l"," ","a","u","d","i","e","n","c","e">>, <<"y","o","u","n","g"," ","a","d","u","l","t","s">>, <<"f","a","m","i","l","y">>>>],
    [genre |-> <<"h","o","r","r","o","r">>, audiences |-> <<<<"h","o","r","r","o","r"," ","f","a","n","s">>, <<"y","o","u","n","g"," ","a","d","u","l","t","s">>, <<"t","h","r","i","l","l"," ","s","e","e","k","e","r","s">>>>],
    [genre |-> <<"f","a","n","t","a","s","y">>, audiences |-> <<<<"f","a","n","t","a","s","y"," ","f","a","n","s">>, <<"y","o","u","n","g"," ","a","d","u","l","t","s">>, <<"e","s","c","a","p","i","s","m"," ","s","e","e","k","e","r","s">>>>] >>

\* audienceMap[genre], <<>> when the genre is no key
audiencesOf(genre) ==
    IF \E i \in 1..Len(audienceMap) : audienceMap[i].genre = genre
    THEN audienceMap[CHOOSE i \in 1..Len(audienceMap) : audienceMap[i].genre = genre].audiences
    ELSE <<>>

\* [...v]: the elements of an array, the characters of a string
spread(v) == IF v.t = "string" THEN [i \in 1..Len(v.v) |-> <<v.v[i]>>] ELSE v.v

\* generateVibeParameters(movieAnalysis): genres.forEach is a TypeError unless
\* genres is an array, audiences.push(...audienceMap[genre]) is one for an
\* inherited property, the spreads are for a value that is not iterable
generateVibeParameters(movieAnalysis) ==
    LET themes == movieAnalysis.themes
        genres == movieAnalysis.genres
        culturalKeywords == movieAnalysis.culturalKeywords
    IN IF genres.t # "array"
       THEN Throw(<<"g","e","n","r","e","s",".","f","o","r","E","a","c","h"," ","i","s"," ","n","o","t"," ","a"," ","f","u","n","c","t","i","o","n">>)
       ELSE IF \E i \in 1..Len(genres.v) : genres.v[i] \in inheritedKeys
       THEN Throw(<<"a","u","d","i","e","n","c","e","M","a","p","[","g","e","n","r","e","]"," ","i","s"," ","n","o","t"," ","i","t","e","r","a","b","l","e">>)
       ELSE IF themes.t \notin {"array", "string"}
       THEN Throw(<<"t","h","e","m","e","s"," ","i","s"," ","n","o","t"," ","i","t","e","r","a","b","l","e">>)
       ELSE IF culturalKeywords.t \notin {"array", "string"}
       THEN Throw(<<"c","u","l","t","u","r","a","l","K","e","y","w","o","r","d","s"," ","i","s"," ","n","o","t"," ","i","t","e","r","a","b","l","e">>)
       ELSE
       LET audiences == flatten([i \in 1..Len(genres.v) |-> audiencesOf(genres.v[i])])
           all == spread(themes) \o spread(culturalKeywords) \o genres.v
           tags == [i \in 1..Len(all) |-> replaceSpaces(toLowerCase(all[i]))]
       IN Return([audiences |-> slice0(dedupe(audiences), 5),
                  tags |-> slice0(dedupe(tags), 10),
                  entityType |-> <<"u","r","n",":","e","n","t","i","t","y",":","m","o","v","i","e">>])

----------------------------------------------------------------------------
(* POST /api/analyze-movie: the fallback list of similar movies *)

Movie(title, year, description, vibeMatch) ==
    [title |-> title, year |-> year, description |-> description, vibeMatch |-> vibeMatch]

\* moviesByVibe, in the order of the source
moviesByVibe == <<
    [vibe |-> <<"s","c","i","-","f","i">>, movies |-> <<
        Movie(<<"B","l","a","d","e"," ","R","u","n","n","e","r"," ","2","0","4","9">>, 2017, <<"V","i","s","u","a","l","l","y"," ","s","t","u","n","n","i","n","g"," ","c","y","b","e","r","p","u","n","k"," ","s","e","q","u","e","l"," ","e","x","p","l","o","r","i","n","g"," ","i","d","e","n","t","i","t","y"," ","a","n","d"," ","h","u","m","a","n","i","t","y">>, <<<<"f","u","t","u","r","i","s","t","i","c">>, <<"p","h","i","l","o","s","o","p","h","i","c","a","l">>, <<"v","i","s","u","a","l">>>>),
        Movie(<<"A","r","r","i","v","a","l">>, 2016, <<"T","h","o","u","g","h","t","f","u","l"," ","a","l","i","e","n"," ","c","o","n","t","a","c","t"," ","f","i","l","m"," ","a","b","o","u","t"," ","c","o","m","m","u","n","i","c","a","t","i","o","n"," ","a","n","d"," ","t","i","m","e">>, <<<<"c","e","r","e","b","r","a","l">>, <<"e","m","o","t","i","o","n","a","l">>, <<"s","c","i","-","f","i">>>>),
        Movie(<<"E","x"," ","M","a","c","h","i","n","a">>, 2014, <<"I","n","t","i","m","a","t","e"," ","A","I"," ","t","h","r","i","l","l","e","r"," ","a","b","o","u","t"," ","c","o","n","s","c","i","o","u","s","n","e","s","s"," ","a","n","d"," ","h","u","m","a","n","i","t","y">>, <<<<"p","s","y","c","h","o","l","o","g","i","c","a","l">>, <<"s","c","i","-","f","i">>, <<"p","h","i","l","o","s","o","p","h","i","c","a","l">>>>),
        Movie(<<"I","n","t","e","r","s","t","e","l","l","a","r">>, 2014, <<"E","p","i","c"," ","s","p","a","c","e"," ","o","d","y","s","s","e","y"," ","a","b","o","u","t"," ","l","o","v","e"," ","t","r","a","n","s","c","e","n","d","i","n","g"," ","d","i","m","e","n","s","i","o","n","s">>, <<<<"e","p","i","c">>, <<"e","m","o","t","i","o","n","a","l">>, <<"s","c","i","-","f","i">>>>),
        Movie(<<"H","e","r">>, 2013, <<"R","o","m","a","n","t","i","c"," ","d","r","a","m","a"," ","a","b","o","u","t"," ","h","u","m","a","n","-","A","I"," ","r","e","l","a","t","i","o","n","s","h","i","p">>, <<<<"r","o","m","a","n","t","i","c">>, <<"f","u","t","u","r","i","s","t","i","c">>, <<"e","m","o","t","i","o","n","a","l">>>>) >>],
    [vibe |-> <<"a","c","t","i","o","n">>, movies |-> <<
        Movie(<<"M","a","d"," ","M","a","x",":"," ","F","u","r","y"," ","R","o","a","d">>, 2015, <<"H","i","g","h","-","o","c","t","a","n","e"," ","p","o","s","t","-","a","p","o","c","a","l","y","p","t","i","c"," ","a","c","t","i","o","n"," ","m","a","s","t","e","r","p","i","e","c","e">>, <<<<"i","n","t","e","n","s","e">>, <<"v","i","s","u","a","l">>, <<"a","c","t","i","o","n">>>>),
        Movie(<<"J","o","h","n"," ","W","i","c","k">>, 2014, <<"S","t","y","l","i","s","h"," ","r","e","v","e","n","g","e"," ","t","h","r","i","l","l","e","r"," ","w","i","t","h"," ","i","n","c","r","e","d","i","b","l","e"," ","a","c","t","i","o","n"," ","c","h","o","r","e","o","g","r","a","p","h","y">>, <<<<"s","t","y","l","i","s","h">>, <<"i","n","t","e","n","s","e">>, <<"a","c","t","i","o","n">>>>),
        Movie(<<"T","h","e"," ","R","a","i","d">>, 2011, <<"B","r","u","t","a","l"," ","m","a","r","t","i","a","l"," ","a","r","t","s"," ","a","c","t","i","o","n"," ","f","i","l","m"," ","i","n"," ","c","o","n","f","i","n","e","d"," ","s","e","t","t","i","n","g">>, <<<<"i","n","t","e","n","s","e">>, <<"m","a","r","t","i","a","l","_","a","r","t","s">>, <<"a","c","t","i","o","n">>>>),
        Movie(<<"B","a","b","y"," ","D","r","i","v","e","r">>, 2017, <<"M","u","s","i","c","-","d","r","i","v","e","n"," ","h","e","i","s","t"," ","f","i","l","m"," ","w","i","t","h"," ","k","i","n","e","t","i","c"," ","e","n","e","r","g","y">>, <<<<"s","t","y","l","i","s","h">>, <<"m","u","s","i","c","a","l">>, <<"a","c","t","i","o","n">>>>) >>],
    [vibe |-> <<"r","o","m","a","n","c","e">>, movies |-> <<
        Movie(<<"L","a"," ","L","a"," ","L","a","n","d">>, 2016, <<"M","o","d","e","r","n"," ","m","u","s","i","c","a","l"," ","a","b","o","u","t"," ","l","o","v","e"," ","a","n","d"," ","d","r","e","a","m","s"," ","i","n"," ","L","o","s"," ","A","n","g","e","l","e","s">>, <<<<"r","o","m","a","n","t","i","c">>, <<"m","u","s","i","c","a","l">>, <<"e","m","o","t","i","o","n","a","l">>>>),
        Movie(<<"C","a","l","l"," ","M","e"," ","B","y"," ","Y","o","u","r"," ","N","a","m","e">>, 2017, <<"B","e","a","u","t","i","f","u","l"," ","c","o","m","i","n","g","-","o","f","-","a","g","e"," ","r","o","m","a","n","c","e"," ","s","e","t"," ","i","n"," ","I","t","a","l","y">>, <<<<"r","o","m","a","n","t","i","c">>, <<"c","o","m","i","n","g","_","o","f","_","a","g","e">>, <<"e","m","o","t","i","o","n","a","l">>>>),
        Movie(<<"T","h","e"," ","S","h","a","p","e"," ","o","f"," ","W","a","t","e","r">>, 2017, <<"F","a","n","t","a","s","y"," ","r","o","m","a","n","c","e"," ","b","e","t","w","e","e","n"," ","w","o","m","a","n"," ","a","n","d"," ","a","m","p","h","i","b","i","a","n"," ","c","r","e","a","t","u","r","e">>, <<<<"r","o","m","a","n","t","i","c">>, <<"f","a","n","t","a","s","y">>, <<"u","n","i","q","u","e">>>>),
        Movie(<<"E","t","e","r","n","a","l"," ","S","u","n","s","h","i","n","e"," ","o","f"," ","t","h","e"," ","S","p","o","t","l","e","s","s"," ","M","i","n","d">>, 2004, <<"U","n","i","q","u","e"," ","r","o","m","a","n","c","e"," ","a","b","o","u","t"," ","m","e","m","o","r","y"," ","a","n","d"," ","l","o","v","e">>, <<<<"r","o","m","a","n","t","i","c">>, <<"p","s","y","c","h","o","l","o","g","i","c","a","l">>, <<"u","n","i","q","u","e">>>>) >>],
    [vibe |-> <<"t","h","r","i","l","l","e","r">>, movies |-> <<
        Movie(<<"G","o","n","e"," ","G","i","r","l">>, 2014, <<"P","s","y","c","h","o","l","o","g","i","c","a","l"," ","t","h","r","i","l","l","e","r"," ","a","b","o","u","t"," ","m","a","r","r","i","a","g","e"," ","a","n","d"," ","d","e","c","e","p","t","i","o","n">>, <<<<"p","s","y","c","h","o","l","o","g","i","c","a","l">>, <<"d","a","r","k">>, <<"t","h","r","i","l","l","e","r">>>>),
        Movie(<<"Z","o","d","i","a","c">>, 2007, <<"M","e","t","i","c","u","l","o","u","s"," ","p","r","o","c","e","d","u","r","a","l"," ","a","b","o","u","t"," ","t","h","e"," ","Z","o","d","i","a","c"," ","k","i","l","l","e","r"," ","i","n","v","e","s","t","i","g","a","t","i","o","n">>, <<<<"d","a","r","k">>, <<"i","n","v","e","s","t","i","g","a","t","i","v","e">>, <<"p","s","y","c","h","o","l","o","g","i","c","a","l">>>>),
        Movie(<<"P","r","i","s","o","n","e","r","s">>, 2013, <<"I","n","t","e","n","s","e"," ","t","h","r","i","l","l","e","r"," ","a","b","o","u","t"," ","d","e","s","p","e","r","a","t","e"," ","f","a","t","h","e","r"," ","s","e","a","r","c","h","i","n","g"," ","f","o","r"," ","d","a","u","g","h","t","e","r">>, <<<<"i","n","t","e","n","s","e">>, <<"d","a","r","k">>, <<"t","h","r","i","l","l","e","r">>>>),
        Movie(<<"S","h","u","t","t","e","r"," ","I","s","l","a","n","d">>, 2010, <<"P","s","y","c","h","o","l","o","g","i","c","a","l"," ","t","h","r","i","l","l","e","r"," ","s","e","t"," ","i","n"," ","m","y","s","t","e","r","i","o","u","s"," ","p","s","y","c","h","i","a","t","r","i","c"," ","f","a","c","i","l","i","t","y">>, <<<<"p","s","y","c","h","o","l","o","g","i","c","a","l">>, <<"m","y","s","t","e","r","y">>, <<"d","a","r","k">>>>) >>],
    [vibe |-> <<"d","r","a","m","a">>, movies |-> <<
        Movie(<<"M","a","n","c","h","e","s","t","e","r"," ","b","y"," ","t","h","e"," ","S","e","a">>, 2016, <<"D","e","e","p","l","y"," ","e","m","o","t","i","o","n","a","l"," ","d","r","a","m","a"," ","a","b","o","u","t"," ","g","r","i","e","f"," ","a","n","d"," ","f","a","m","i","l","y">>, <<<<"e","m","o","t","i","o","n","a","l">>, <<"f","a","m","i","l","y">>, <<"d","r","a","m","a">>>>),
        Movie(<<"M","o","o","n","l","i","g","h","t">>, 2016, <<"B","e","a","u","t","i","f","u","l"," ","c","o","m","i","n","g","-","o","f","-","a","g","e"," ","s","t","o","r","y"," ","t","o","l","d"," ","i","n"," ","t","h","r","e","e"," ","a","c","t","s">>, <<<<"c","o","m","i","n","g","_","o","f","_","a","g","e">>, <<"e","m","o","t","i","o","n","a","l">>, <<"c","h","a","r","a","c","t","e","r","_","s","t","u","d","y">>>>),
        Movie(<<"T","h","e","r","e"," ","W","i","l","l"," ","B","e"," ","B","l","o","o","d">>, 2007, <<"E","p","i","c"," ","c","h","a","r","a","c","t","e","r"," ","s","t","u","d","y"," ","o","f"," ","g","r","e","e","d"," ","a","n","d"," ","a","m","b","i","t","i","o","n">>, <<<<"c","h","a","r","a","c","t","e","r","_","s","t","u","d","y">>, <<"e","p","i","c">>, <<"d","a","r","k">>>>),
        Movie(<<"T","h","e"," ","S","o","c","i","a","l"," ","N","e","t","w","o","r","k">>, 2010, <<"S","h","a","r","p"," ","d","r","a","m","a"," ","a","b","o","u","t"," ","F","a","c","e","b","o","o","k","'","s"," ","c","r","e","a","t","i","o","n"," ","a","n","d"," ","b","e","t","r","a","y","a","l">>, <<<<"c","h","a","r","a","c","t","e","r","_","s","t","u","d","y">>, <<"m","o","d","e","r","n">>, <<"d","r","a","m","a">>>>) >>],
    [vibe |-> <<"c","o","m","e","d","y">>, movies |-> <<
        Movie(<<"T","h","e"," ","G","r","a","n","d"," ","B","u","d","a","p","e","s","t"," ","H","o","t","e","l">>, 2014, <<"W","h","i","m","s","i","c","a","l"," ","W","e","s"," ","A","n","d","e","r","s","o","n"," ","c","o","m","e","d","y"," ","a","b","o","u","t"," ","E","u","r","o","p","e","a","n"," ","h","o","t","e","l">>, <<<<"w","h","i","m","s","i","c","a","l">>, <<"v","i","s","u","a","l">>, <<"c","o","m","e","d","y">>>>),
        Movie(<<"K","n","i","v","e","s"," ","O","u","t">>, 2019, <<"C","l","e","v","e","r"," ","w","h","o","d","u","n","i","t"," ","w","i","t","h"," ","e","x","c","e","l","l","e","n","t"," ","e","n","s","e","m","b","l","e"," ","c","a","s","t">>, <<<<"c","l","e","v","e","r">>, <<"e","n","s","e","m","b","l","e">>, <<"m","y","s","t","e","r","y">>>>),
        Movie(<<"H","u","n","t"," ","f","o","r"," ","t","h","e"," ","W","i","l","d","e","r","p","e","o","p","l","e">>, 2016, <<"H","e","a","r","t","w","a","r","m","i","n","g"," ","N","e","w"," ","Z","e","a","l","a","n","d"," ","a","d","v","e","n","t","u","r","e"," ","c","o","m","e","d","y">>, <<<<"h","e","a","r","t","w","a","r","m","i","n","g">>, <<"a","d","v","e","n","t","u","r","e">>, <<"c","o","m","e","d","y">>>>) >>],
    [vibe |-> <<"h","o","r","r","o","r">>, movies |-> <<
        Movie(<<"H","e","r","e","d","i","t","a","r","y">>, 2018, <<"D","e","e","p","l","y"," ","u","n","s","e","t","t","l","i","n","g"," ","f","a","m","i","l","y"," ","h","o","r","r","o","r"," ","a","b","o","u","t"," ","g","r","i","e","f"," ","a","n","d"," ","t","r","a","u","m","a">>, <<<<"p","s","y","c","h","o","l","o","g","i","c","a","l">>, <<"f","a","m","i","l","y">>, <<"h","o","r","r","o","r">>>>),
        Movie(<<"G","e","t"," ","O","u","t">>, 2017, <<"S","o","c","i","a","l"," ","t","h","r","i","l","l","e","r"," ","c","o","m","b","i","n","i","n","g"," ","h","o","r","r","o","r"," ","w","i","t","h"," ","r","a","c","i","a","l"," ","c","o","m","m","e","n","t","a","r","y">>, <<<<"s","o","c","i","a","l">>, <<"p","s","y","c","h","o","l","o","g","i","c","a","l">>, <<"h","o","r","r","o","r">>>>),
        Movie(<<"T","h","e"," ","W","i","t","c","h">>, 2015, <<"P","e","r","i","o","d"," ","h","o","r","r","o","r"," ","a","b","o","u","t"," ","P","u","r","i","t","a","n"," ","f","a","m","i","l","y"," ","a","n","d"," ","w","i","t","c","h","c","r","a","f","t">>, <<<<"a","t","m","o","s","p","h","e","r","i","c">>, <<"p","e","r","i","o","d">>, <<"h","o","r","r","o","r">>>>) >>],
    [vibe |-> <<"f","a","n","t","a","s","y">>, movies |-> <<
        Movie(<<"P","a","n","'","s"," ","L","a","b","y","r","i","n","t","h">>, 2006, <<"D","a","r","k"," ","f","a","i","r","y"," ","t","a","l","e"," ","b","l","e","n","d","i","n","g"," ","r","e","a","l","i","t","y"," ","a","n","d"," ","f","a","n","t","a","s","y">>, <<<<"f","a","n","t","a","s","y">>, <<"d","a","r","k">>, <<"m","a","g","i","c","a","l">>>>),
        Movie(<<"T","h","e"," ","S","h","a","p","e"," ","o","f"," ","W","a","t","e","r">>, 2017, <<"R","o","m","a","n","t","i","c"," ","f","a","n","t","a","s","y"," ","a","b","o","u","t"," ","l","o","v","e"," ","c","o","n","q","u","e","r","i","n","g"," ","d","i","f","f","e","r","e","n","c","e">>, <<<<"r","o","m","a","n","t","i","c">>, <<"f","a","n","t","a","s","y">>, <<"u","n","i","q","u","e">>>>),
        Movie(<<"A","m","é","l","i","e">>, 2001, <<"W","h","i","m","s","i","c","a","l"," ","F","r","e","n","c","h"," ","f","i","l","m"," ","a","b","o","u","t"," ","j","o","y"," ","a","n","d"," ","h","u","m","a","n"," ","c","o","n","n","e","c","t","i","o","n">>, <<<<"w","h","i","m","s","i","c","a","l">>, <<"h","e","a","r","t","w","a","r","m","i","n","g">>, <<"f","r","e","n","c","h">>>>) >>] >>

\* the movies of the table entries found for a key: those of the one entry, or <<>>
moviesOfEntry(entries) == IF entries = <<>> THEN <<>> ELSE entries[1].movies

\* moviesByVibe[vibe], <<>> when the vibe is no key
moviesOf(vibe) == moviesOfEntry(SelectSeq(moviesByVibe, LAMBDA entry : entry.vibe = vibe))

\* moodToVibes[mood], <<>> when the mood is no key
moodToVibes(mood) ==
    CASE mood = <<"d","a","r","k">> -> <<<<"t","h","r","i","l","l","e","r">>, <<"h","o","r","r","o","r">>, <<"d","r","a","m","a">>>>
      [] mood = <<"i","n","t","e","n","s","e">> -> <<<<"a","c","t","i","o","n">>, <<"t","h","r","i","l","l","e","r">>>>
      [] mood = <<"e","m","o","t","i","o","n","a","l">> -> <<<<"d","r","a","m","a">>, <<"r","o","m","a","n","c","e">>>>
      [] mood = <<"l","i","g","h","t">> -> <<<<"c","o","m","e","d","y">>, <<"f","a","n","t","a","s","y">>>>
      [] mood = <<"a","t","m","o","s","p","h","e","r","i","c">> -> <<<<"t","h","r","i","l","l","e","r">>, <<"h","o","r","r","o","r">>, <<"s","c","i","-","f","i">>>>
      [] OTHER -> <<>>

\* vibeParameters.p of a field generateVibeParameters does not set
optional(vibeParameters, p) ==
    IF p \in DOMAIN vibeParameters THEN vibeParameters[p] ELSE Undefined

\* vibes.forEach(vibe => { if (moviesByVibe[vibe]) selectedMovies.push(...moviesByVibe[vibe]) })
pushAll(vibes) == flatten([i \in 1..Len(vibes) |-> moviesOf(vibes[i])])

\* moodToVibes[primaryMood] when primaryMood is set and a key
relatedVibes(vibeParameters) ==
    LET primaryMood == optional(vibeParameters, "primaryMood")
    IN IF truthy(primaryMood) THEN moodToVibes(primaryMood.v) ELSE <<>>

\* the three steps of lines 531-562: each is taken when the one before left
\* selectedMovies empty
firstSelected(byTag, byMood, default) ==
    IF Len(byTag) > 0 THEN byTag
    ELSE IF Len(byMood) > 0 THEN byMood
    ELSE default

\* variant of selectedMovies: without the drama default of lines 559-561
selectedMoviesNoDefault(vibeParameters) ==
    firstSelected(pushAll(vibeParameters.tags), pushAll(relatedVibes(vibeParameters)), <<>>)

\* the movies selected before duplicates and the original are removed
selectedMovies(vibeParameters) ==
    firstSelected(pushAll(vibeParameters.tags), pushAll(relatedVibes(vibeParameters)),
                  moviesOf(<<"d","r","a","m","a">>))

\* the filter of lines 565-570: not the original movie, first of its title; then
\* slice(0, 6)
uniqueMovies(selected, originalMovie) ==
    LET keep == {i \in 1..Len(selected) :
                    /\ toLowerCase(selected[i].title) # toLowerCase(originalMovie)
                    /\ \A j \in 1..(i - 1) : selected[j].title # selected[i].title}
        RECURSIVE kept(_)
        kept(k) == IF k > Len(selected) THEN <<>>
                   ELSE IF k \in keep THEN <<selected[k]>> \o kept(k + 1)
                   ELSE kept(k + 1)
    IN slice0(kept(1), 6)

\* tag.includes(vibe) || vibe.includes(tag)
vibeShared(tag, vibe) == includes(tag, vibe) \/ includes(vibe, tag)

\* Math.max(0.6, 0.8 - index * 0.03 + shared * 0.05), in thousandths; index from 0
fallbackMatchScore(index, shared) ==
    LET s == 800 - (index * 30) + (shared * 50) IN IF s < 600 THEN 600 ELSE s

\* a result of Math.random(): thousandths / 1000 - below * 2^-53, a double that is
\* at least 0 and less than 1.  below is 0 unless thousandths is 1000
Thousandths(r) == [thousandths |-> r, below |-> 0]
BelowOne(d) == [thousandths |-> 1000, below |-> d]

\* a double: v ten-thousandths less below * 2^-49, the spacing of the doubles
\* from 8 to 16
Float(v, below) == [t |-> "number", v |-> v, below |-> below]

\* n / q rounded to the nearest integer, a tie to the even one: the rounding of
\* double arithmetic
roundHalfEven(n, q) ==
    LET f == n \div q
        rest == n % q
    IN IF 2 * rest < q THEN f
       ELSE IF 2 * rest > q THEN f + 1
       ELSE IF f % 2 = 0 THEN f ELSE f + 1

\* variant of simulatedRating: the jitter is 3.0 wide
simulatedRatingWide(random) == Float(70000 + (random.thousandths * 30), 0)

\* 7.0 + Math.random() * 2.5 in double arithmetic.  For Math.random() = 1 - d * 2^-53
\* the product is 2.5 - (5d / 8) * 2^-51, rounded to the spacing 2^-51 of the
\* doubles from 2 to 4, and the sum is 9.5 less a quarter as many steps of 2^-49,
\* rounded again; 2.5 and 9.5 are even multiples of their spacings, so ties go
\* to them
simulatedRating(random) ==
    Float(70000 + (random.thousandths * 25),
          roundHalfEven(roundHalfEven(5 * random.below, 8), 4))

\* lines 573-593: uniqueMovies.map((movie, index) => ...); randoms[i] is what
\* Math.random() returns for movie i
scoredMovies(unique, tags, primaryMood, vibeIntensity, randoms) ==
    LET mood == toString(orElse(primaryMood, Str(<<"e","m","o","t","i","o","n","a","l">>)))
        shared(movie) == SelectSeq(movie.vibeMatch, LAMBDA vibe :
                             \E j \in 1..Len(tags) : vibeShared(tags[j], vibe))
        similar(movie, index, sharedVibeElements) ==
            [title |-> movie.title,
             description |-> movie.description,
             year |-> Num(movie.year),
             rating |-> simulatedRating(randoms[index + 1]),
             matchScore |-> fallbackMatchScore(index, Len(sharedVibeElements)),
             reason |-> IF Len(sharedVibeElements) > 0
                        THEN <<"S","h","a","r","e","s"," ">> \o join(sharedVibeElements, <<","," ">>) \o <<" ","v","i","b","e","s"," ","w","i","t","h"," ","s","i","m","i","l","a","r"," ">>
                             \o mood \o <<" ","t","o","n","e">>
                        ELSE <<"M","a","t","c","h","e","s"," ","t","h","e"," ">> \o mood \o <<" ","a","n","d"," ">>
                             \o toString(orElse(vibeIntensity, Str(<<"m","e","d","i","u","m">>))) \o <<" ","i","n","t","e","n","s","i","t","y"," ","v","i","b","e">>,
             sharedElements |-> IF Len(sharedVibeElements) > 0 THEN sharedVibeElements
                                ELSE slice0(tags, 3)]
    IN [i \in 1..Len(unique) |-> similar(unique[i], i - 1, shared(unique[i]))]

\* getFallbackSimilarMovies(vibeParameters, originalMovie).  moviesByVibe[tag] of an
\* inherited property is not iterable: the push throws
getFallbackSimilarMovies(vibeParameters, originalMovie, randoms) ==
    IF \E j \in 1..Len(vibeParameters.tags) : vibeParameters.tags[j] \in inheritedKeys
    THEN Throw(<<"m","o","v","i","e","s","B","y","V","i","b","e","[","t","a","g","]"," ","i","s"," ","n","o","t"," ","i","t","e","r","a","b","l","e">>)
    ELSE Return(scoredMovies(uniqueMovies(selectedMovies(vibeParameters), originalMovie),
                             vibeParameters.tags,
                             optional(vibeParameters, "primaryMood"),
                             optional(vibeParameters, "vibeIntensity"),
                             randoms))

Null == [t |-> "null"]

MovieProperties(description, release_year, rating, keywords) ==
    [t |-> "object", description |-> description, release_year |-> release_year,
     rating |-> rating, keywords |-> keywords]

\* variant of movieMatchScore: Math.max where the source has Math.min
movieMatchScoreMax(shared) == LET s == 600 + (shared * 80) IN IF s < 950 THEN 950 ELSE s

\* Math.min(0.95, 0.6 + shared * 0.08), in thousandths
movieMatchScore(shared) == LET s == 600 + (shared * 80) IN IF s > 950 THEN 950 ELSE s

\* generateMovieMatchReason(title, sharedElements, vibeParameters)
generateMovieMatchReason(title, sharedElements, vibeParameters) ==
    IF Len(sharedElements) > 2
    THEN title \o <<" ","s","h","a","r","e","s"," ","k","e","y"," ","t","h","e","m","a","t","i","c"," ","e","l","e","m","e","n","t","s"," ","i","n","c","l","u","d","i","n","g"," ">> \o join(slice0(sharedElements, 2), <<","," ">>)
               \o <<","," ","m","a","k","i","n","g"," ","i","t"," ","a"," ","s","t","r","o","n","g"," ","m","a","t","c","h"," ","f","o","r"," ","s","i","m","i","l","a","r"," ","a","u","d","i","e","n","c","e","s">>
    ELSE IF Len(sharedElements) > 0
    THEN title \o <<" ","r","e","s","o","n","a","t","e","s"," ","w","i","t","h"," ","s","i","m","i","l","a","r"," ">> \o sharedElements[1] \o <<" ","t","h","e","m","e","s"," ","a","n","d"," ","c","u","l","t","u","r","a","l"," ","s","e","n","s","i","b","i","l","i","t","i","e","s">>
    ELSE title \o <<" ","a","p","p","e","a","l","s"," ","t","o"," ","s","i","m","i","l","a","r"," ","a","u","d","i","e","n","c","e","s"," ","i","n","t","e","r","e","s","t","e","d"," ","i","n"," ">>
               \o (IF Len(vibeParameters.audiences) > 0 /\ Len(vibeParameters.audiences[1]) > 0
                   THEN vibeParameters.audiences[1] ELSE <<"t","h","o","u","g","h","t","f","u","l"," ","c","i","n","e","m","a">>)

\* transformQlooMovieResponse(qlooMovie, vibeParameters): keywords?.map is a
\* TypeError on a keywords value that is not an array
transformQlooMovieResponse(qlooMovie, vibeParameters) ==
    LET kw == prop(qlooMovie, "keywords")
    IN IF kw.t \notin {"undefined", "array"}
       THEN Throw(<<"k","e","y","w","o","r","d","s",".","m","a","p"," ","i","s"," ","n","o","t"," ","a"," ","f","u","n","c","t","i","o","n">>)
       ELSE
       LET title == toString(orElse(qlooMovie.name, Str(<<"U","n","k","n","o","w","n"," ","M","o","v","i","e">>)))
           movieKeywords == IF kw.t = "undefined" THEN <<>>
                            ELSE [i \in 1..Len(kw.v) |-> toLowerCase(kw.v[i])]
           vibeKeywords == [i \in 1..Len(vibeParameters.tags) |-> toLowerCase(vibeParameters.tags[i])]
           sharedElements == SelectSeq(movieKeywords, LAMBDA keyword :
               \E i \in 1..Len(vibeKeywords) : vibeShared(keyword, vibeKeywords[i]))
       IN Return([
            title |-> title,
            description |-> toString(orElse(prop(qlooMovie, "description"),
                                            Str(<<"A"," ","c","o","m","p","e","l","l","i","n","g"," ","f","i","l","m"," ","e","x","p","e","r","i","e","n","c","e">>))),
            year |-> orElse(prop(qlooMovie, "release_year"), Null),
            rating |-> orElse(prop(qlooMovie, "rating"), Null),
            matchScore |-> movieMatchScore(Len(sharedElements)),
            reason |-> generateMovieMatchReason(title, sharedElements, vibeParameters),
            sharedElements |-> IF Len(sharedElements) > 0 THEN sharedElements
                               ELSE slice0(vibeParameters.tags, 3),
            qloo_data |-> [entity_id |-> qlooMovie.entity_id, type |-> qlooMovie.type] ])

\* variant of transformMovies: the original movie is not filtered out
transformMoviesUnfiltered(movies, vibeParameters, originalMovie) ==
    LET results == [i \in 1..Len(movies) |-> transformQlooMovieResponse(movies[i], vibeParameters)]
    IN IF \E i \in 1..Len(movies) : results[i].threw
       THEN results[CHOOSE i \in 1..Len(movies) :
                        results[i].threw /\ \A j \in 1..(i - 1) : ~results[j].threw]
       ELSE Return(slice0([i \in 1..Len(movies) |-> results[i].val], 6))

\* movies.filter(name differs from the original).map(transform).slice(0, 6)
transformMovies(movies, vibeParameters, originalMovie) ==
    LET kept == SelectSeq(movies, LAMBDA movie :
                    movie.name.t # "string"
                    \/ toLowerCase(movie.name.v) # toLowerCase(originalMovie))
        results == [i \in 1..Len(kept) |-> transformQlooMovieResponse(kept[i], vibeParameters)]
    IN IF \E i \in 1..Len(kept) : results[i].threw
       THEN results[CHOOSE i \in 1..Len(kept) :
                        results[i].threw /\ \A j \in 1..(i - 1) : ~results[j].threw]
       ELSE Return(slice0([i \in 1..Len(kept) |-> results[i].val], 6))

----------------------------------------------------------------------------
(* POST /api/analyze-movie: the model calls *)

\* the candidate models of analyzeMovieWithHF, in the order they are tried:
\* HF_MOVIE_ANALYSIS_MODEL, HF_BACKUP_MODEL, HF_ALTERNATIVE_MODEL
models == <<"primary", "backup", "alternative">>

\* result.summary.length > 20
SummaryMinLength == 20

\* a summary of n characters
summaryOfLength(n) == [i \in 1..n |-> "x"]

\* objects the text of a movie model may hold
MovieObjects == {
    MovieAnalysis(Str(summaryOfLength(SummaryMinLength + 1)), Arr(<<<<"C","l","a","s","s"," ","S","t","r","u","g","g","l","e">>, <<"s","u","r","v","i","v","a","l">>>>),
                  Arr(<<<<"t","h","r","i","l","l","e","r">>, <<"d","r","a","m","a">>>>), Arr(<<<<"K","o","r","e","a","n"," ","c","i","n","e","m","a">>>>)),
    MovieAnalysis(Str(summaryOfLength(SummaryMinLength)), Arr(<<<<"s","p","a","c","e">>>>),
                  Arr(<<<<"s","c","i","-","f","i">>>>), Arr(<<<<"v","i","s","u","a","l">>>>)),
    MovieAnalysis(Num(2019), Arr(<<<<"s","p","a","c","e">>>>), Arr(<<<<"s","c","i","-","f","i">>>>), Arr(<<<<"v","i","s","u","a","l">>>>)),
    MovieAnalysis(Str(<<"A"," ","f","a","m","i","l","y"," ","s","c","h","e","m","e","s"," ","i","t","s"," ","w","a","y"," ","i","n","t","o"," ","a"," ","w","e","a","l","t","h","y"," ","h","o","u","s","e","h","o","l","d",".">>), Arr(<<<<"c","l","a","s","s">>>>),
                  Arr(<<<<"c","o","m","e","d","y">>>>), Undefined),
    MovieAnalysis(Str(<<"A"," ","f","a","m","i","l","y"," ","s","c","h","e","m","e","s"," ","i","t","s"," ","w","a","y"," ","i","n","t","o"," ","a"," ","w","e","a","l","t","h","y"," ","h","o","u","s","e","h","o","l","d",".">>), Str(<<"c","l","a","s","s">>),
                  Str(<<"d","r","a","m","a">>), Str(<<"K","o","r","e","a","n"," ","c","i","n","e","m","a">>)),
    MovieAnalysis(Str(<<"A"," ","y","o","u","n","g"," ","m","a","n"," ","g","r","o","w","s"," ","u","p"," ","i","n"," ","M","i","a","m","i",","," ","t","o","l","d"," ","i","n"," ","t","h","r","e","e"," ","a","c","t","s",".">>), Arr(<<<<"i","d","e","n","t","i","t","y">>>>),
                  Arr(<<<<"r","o","m","a","n","c","e">>, <<"f","a","n","t","a","s","y">>>>), Arr(<<<<"e","m","o","t","i","o","n","a","l">>>>)) }

\* what a movie model may reply
ModelOutcomes == FailedOutcomes \cup
    {Ok(Payload("array", Text("object", o), Undefined, Undefined, Undefined)) : o \in MovieObjects} \cup {
    Ok(Payload("array", Text("invalid", Undefined), Undefined, Undefined, Undefined)),
    Ok(Payload("array", Str(<<"P","a","r","a","s","i","t","e"," ","i","s"," ","a"," ","t","h","r","i","l","l","e","r"," ","a","b","o","u","t"," ","c","l","a","s","s">>), Undefined, Undefined, Undefined)),
    Ok(Payload("array", Num(7), Undefined, Undefined, Undefined)),
    Ok(Payload("null", Undefined, Undefined, Undefined, Undefined)) }

\* variant of tryMovieAnalysisWithModel: the text parser exists and builds an
\* analysis from a text that holds no usable object
tryMovieAnalysisWithModelParsingText(outcome) ==
    CASE outcome.kind = "neterr" -> Throw(<<"f","e","t","c","h"," ","f","a","i","l","e","d">>)
      [] outcome.kind = "non2xx" -> Throw(<<"M","o","d","e","l"," ","A","P","I"," ","e","r","r","o","r",":"," ">> \o natToString(outcome.status))
      [] outcome.kind = "badbody" -> Throw(<<"U","n","e","x","p","e","c","t","e","d"," ","t","o","k","e","n"," ","i","n"," ","J","S","O","N">>)
      [] OTHER ->
         LET g == generatedTextOf(outcome.result)
         IN IF g.threw THEN g
            ELSE IF g.val.t = "number" THEN Throw(<<"g","e","n","e","r","a","t","e","d","T","e","x","t",".","m","a","t","c","h"," ","i","s"," ","n","o","t"," ","a"," ","f","u","n","c","t","i","o","n">>)
            ELSE IF /\ g.val.t = "text"
                    /\ g.val.match = "object"
                    /\ truthy(g.val.obj.summary)
                    /\ truthy(g.val.obj.themes)
                    /\ truthy(g.val.obj.genres)
                    /\ truthy(g.val.obj.culturalKeywords)
            THEN Return(g.val.obj)
            ELSE Return(MovieAnalysis(Str(<<"P","a","r","a","s","i","t","e"," ","i","s"," ","a"," ","t","h","r","i","l","l","e","r"," ","a","b","o","u","t"," ","c","l","a","s","s",".",".",".">>),
                                      Arr(<<<<"d","r","a","m","a">>, <<"h","u","m","a","n"," ","n","a","t","u","r","e">>>>), Arr(<<<<"d","r","a","m","a">>>>),
                                      Arr(<<<<"c","i","n","e","m","a","t","i","c">>, <<"a","r","t","i","s","t","i","c">>>>)))

\* tryMovieAnalysisWithModel(movieName, modelUrl), past its fetch.  The text
\* parser it falls back to, parseMovieAnalysisFromText, is defined nowhere: the
\* call is a ReferenceError
tryMovieAnalysisWithModel(outcome) ==
    CASE outcome.kind = "neterr" -> Throw(<<"f","e","t","c","h"," ","f","a","i","l","e","d">>)
      [] outcome.kind = "non2xx" -> Throw(<<"M","o","d","e","l"," ","A","P","I"," ","e","r","r","o","r",":"," ">> \o natToString(outcome.status))
      [] outcome.kind = "badbody" -> Throw(<<"U","n","e","x","p","e","c","t","e","d"," ","t","o","k","e","n"," ","i","n"," ","J","S","O","N">>)
      [] OTHER ->
         LET g == generatedTextOf(outcome.result)
         IN IF g.threw THEN g
            ELSE IF g.val.t = "number" THEN Throw(<<"g","e","n","e","r","a","t","e","d","T","e","x","t",".","m","a","t","c","h"," ","i","s"," ","n","o","t"," ","a"," ","f","u","n","c","t","i","o","n">>)
            ELSE IF /\ g.val.t = "text"
                    /\ g.val.match = "object"
                    /\ truthy(g.val.obj.summary)
                    /\ truthy(g.val.obj.themes)
                    /\ truthy(g.val.obj.genres)
                    /\ truthy(g.val.obj.culturalKeywords)
            THEN Return(g.val.obj)
            ELSE Throw(<<"p","a","r","s","e","M","o","v","i","e","A","n","a","l","y","s","i","s","F","r","o","m","T","e","x","t"," ","i","s"," ","n","o","t"," ","d","e","f","i","n","e","d">>)

\* variant of accepted: a summary of exactly SummaryMinLength characters passes
acceptedAtLeast(tried) ==
    /\ ~tried.threw
    /\ truthy(tried.val.summary)
    /\ lengthOf(tried.val.summary) # Undefined
    /\ lengthOf(tried.val.summary).v >= SummaryMinLength

\* result && result.summary && result.summary.length > 20, of what
\* tryMovieAnalysisWithModel ended in
accepted(tried) ==
    /\ ~tried.threw
    /\ truthy(tried.val.summary)
    /\ lengthOf(tried.val.summary) # Undefined
    /\ lengthOf(tried.val.summary).v > SummaryMinLength

----------------------------------------------------------------------------
(* POST /api/analyze-movie: the recommendation queries and the handler *)

\* the most entities one reply of the recommendation endpoint holds for movies
MaxMovieEntities == 7

\* values Math.random() may return for the movies of one fallback list
RandomStreams == {
    <<Thousandths(0), Thousandths(0), Thousandths(0), Thousandths(0), Thousandths(0), Thousandths(0)>>,
    <<BelowOne(1), Thousandths(500), Thousandths(999), BelowOne(4), BelowOne(5), Thousandths(1)>> }

\* movie entities the recommendation endpoint may return
MoviePool == <<
    Entity(Str(<<"M","1">>), Str(<<"S","n","o","w","p","i","e","r","c","e","r">>), Str(<<"u","r","n",":","e","n","t","i","t","y",":","m","o","v","i","e">>), Undefined,
           MovieProperties(Str(<<"S","u","r","v","i","v","o","r","s"," ","r","i","d","e"," ","a"," ","t","r","a","i","n"," ","t","h","r","o","u","g","h"," ","a"," ","f","r","o","z","e","n"," ","w","o","r","l","d">>), Num(2013), Num(71000),
                           Arr(<<<<"C","l","a","s","s"," ","S","t","r","u","g","g","l","e">>, <<"D","y","s","t","o","p","i","a">>, <<"s","u","r","v","i","v","a","l">>>>))),
    Entity(Str(<<"M","2">>), Str(<<"P","A","R","A","S","I","T","E">>), Str(<<"u","r","n",":","e","n","t","i","t","y",":","m","o","v","i","e">>), Undefined,
           MovieProperties(Undefined, Num(2019), Undefined, Undefined)),
    Entity(Undefined, Undefined, Undefined, Undefined, Undefined) >>

\* an entity whose keywords value is no array
MalformedMovie ==
    Entity(Str(<<"M","4">>), Str(<<"B","u","r","n","i","n","g">>), Str(<<"u","r","n",":","e","n","t","i","t","y",":","m","o","v","i","e">>), Undefined,
           MovieProperties(Undefined, Undefined, Undefined, Str(<<"m","y","s","t","e","r","y">>)))

MovieLists == {entitiesFrom(MoviePool, 1, n) : n \in {0, 1, MaxMovieEntities}}
    \cup {<<MalformedMovie>>}

\* what the recommendation endpoint may reply to /api/analyze-movie
MovieOutcomes == FailedOutcomes \cup {Ok(es) : es \in MovieLists}

\* a reply that is not 2xx and whose text cannot be read: response.text() rejects
UnreadableNon2xx == [kind |-> "badtext", status |-> 503, result |-> Undefined]

\* what the endpoint may reply to the primary query, which reads the text of a
\* reply that is not 2xx
PrimaryOutcomes == MovieOutcomes \cup {UnreadableNon2xx}

MovieBodies == {
    Body(FALSE, Undefined),
    Body(TRUE, Undefined),
    Body(TRUE, Str(<<>>)),
    Body(TRUE, Str(<<"P","a","r","a","s","i","t","e">>)),
    Body(TRUE, Str(<<"M","o","o","n","l","i","g","h","t">>)),
    Body(TRUE, Str(<<"c","o","n","s","t","r","u","c","t","o","r">>)),
    Body(TRUE, Str(<<"u","n","k","n","o","w","n"," ","m","o","v","i","e">>)) }

\* NextResponse.json(response) of /api/analyze-movie
movieResponse(movieAnalysis, vibeParameters, similarMovies, processingTime) ==
    [status |-> 200,
     body |-> [movieAnalysis |-> movieAnalysis, vibeParameters |-> vibeParameters,
               similarMovies |-> similarMovies, processingTime |-> processingTime]]

\* lines 649-671: the response built from similarMovies, or the catch-all when
\* building similarMovies threw
movieOrCritical(movieAnalysis, vibeParameters, similarMovies, processingTime) ==
    IF similarMovies.threw
    THEN criticalResponse(<<"M","o","v","i","e"," ","a","n","a","l","y","s","i","s"," ","f","a","i","l","e","d">>, similarMovies.msg, <<"M","O","V","I","E","_","A","N","A","L","Y","S","I","S","_","E","R","R","O","R">>)
    ELSE movieResponse(movieAnalysis, vibeParameters, similarMovies.val, processingTime)

\* Step 3 of POST from what the endpoint queries ended in on: tried is the list
\* they returned, or an exception, which every catch on the way answers with
\* getFallbackSimilarMovies; the exception of the last one reaches the outer catch
similarResponse(movieAnalysis, vibeParameters, originalMovie, tried, randoms, processingTime) ==
    movieOrCritical(movieAnalysis, vibeParameters,
                    IF tried.threw
                    THEN getFallbackSimilarMovies(vibeParameters, originalMovie, randoms)
                    ELSE tried,
                    processingTime)

\* variant of moviePrecheck: the credential check ahead of the input check
moviePrecheckKeyFirst(b, key) ==
    IF ~b.parsed
    THEN criticalResponse(<<"M","o","v","i","e"," ","a","n","a","l","y","s","i","s"," ","f","a","i","l","e","d">>, <<"U","n","e","x","p","e","c","t","e","d"," ","e","n","d"," ","o","f"," ","J","S","O","N"," ","i","n","p","u","t">>, <<"M","O","V","I","E","_","A","N","A","L","Y","S","I","S","_","E","R","R","O","R">>)
    ELSE IF ~key
    THEN errorResponse(500, <<"S","e","r","v","e","r"," ","c","o","n","f","i","g","u","r","a","t","i","o","n"," ","e","r","r","o","r",":"," ","M","i","s","s","i","n","g"," ","H","u","g","g","i","n","g"," ","F","a","c","e"," ","A","P","I"," ","k","e","y">>)
    ELSE IF ~truthy(b.field)
    THEN errorResponse(400, <<"N","o"," ","m","o","v","i","e"," ","n","a","m","e"," ","p","r","o","v","i","d","e","d">>)
    ELSE NoResponse

\* lines 599-618: what POST returns before Step 1, NoResponse when it goes on
moviePrecheck(b, key) ==
    IF ~b.parsed
    THEN criticalResponse(<<"M","o","v","i","e"," ","a","n","a","l","y","s","i","s"," ","f","a","i","l","e","d">>, <<"U","n","e","x","p","e","c","t","e","d"," ","e","n","d"," ","o","f"," ","J","S","O","N"," ","i","n","p","u","t">>, <<"M","O","V","I","E","_","A","N","A","L","Y","S","I","S","_","E","R","R","O","R">>)
    ELSE IF ~truthy(b.field)
    THEN errorResponse(400, <<"N","o"," ","m","o","v","i","e"," ","n","a","m","e"," ","p","r","o","v","i","d","e","d">>)
    ELSE IF ~key
    THEN errorResponse(500, <<"S","e","r","v","e","r"," ","c","o","n","f","i","g","u","r","a","t","i","o","n"," ","e","r","r","o","r",":"," ","M","i","s","s","i","n","g"," ","H","u","g","g","i","n","g"," ","F","a","c","e"," ","A","P","I"," ","k","e","y">>)
    ELSE NoResponse

\* variant of nextModel: the model that failed is tried again
nextModelRetry(k) == k

\* for (const model of models): the model tried after model k
nextModel(k) == k + 1

\* lines 597-624 and 10-22: body, input check, credential check, the fetch of
\* the first model
MovStart ==
    /\ endpoint = "movie"
    /\ pc = "start"
    /\ IF moviePrecheck(body, hfKey) # NoResponse
       THEN /\ Finish(moviePrecheck(body, hfKey), log)
            /\ local' = local
       ELSE /\ Suspend("model", models[1], "language", log)
            /\ local' = [local EXCEPT !.model = 1]
    /\ UNCHANGED <<calls, page, endpoint, body, hfKey, qlooKey>>

\* lines 632-659 and 287-333: Step 2, then Step 3 up to its first fetch or, with
\* no recommendation credential, to the response
MovAfterAnalysis(movieAnalysis, l, randoms, elapsed) ==
    LET vp == generateVibeParameters(movieAnalysis)
    IN IF vp.threw
       THEN /\ local' = [local EXCEPT !.movieAnalysis = movieAnalysis, !.model = 0]
            /\ Finish(criticalResponse(<<"M","o","v","i","e"," ","a","n","a","l","y","s","i","s"," ","f","a","i","l","e","d">>, vp.msg, <<"M","O","V","I","E","_","A","N","A","L","Y","S","I","S","_","E","R","R","O","R">>), l)
       ELSE /\ local' = [local EXCEPT !.movieAnalysis = movieAnalysis,
                                      !.vibeParameters = vp.val, !.model = 0]
            /\ IF qlooKey
               THEN Suspend("primary", "primary query", "recommendation", l)
               ELSE Finish(similarResponse(movieAnalysis, vp.val, body.field.v,
                               getFallbackSimilarMovies(vp.val, body.field.v, randoms),
                               randoms, elapsed), l)

\* lines 20-35: the fetch of a model settles; its analysis is accepted, or the
\* next model is tried, or after the last one the built-in analysis is taken
MovModelSettles ==
    /\ endpoint = "movie"
    /\ pc = "model"
    /\ \E outcome \in ModelOutcomes, randoms \in RandomStreams, elapsed \in ElapsedSamples :
        LET tried == tryMovieAnalysisWithModel(outcome)
            l == logSettle(log, outcome.kind, accepted(tried),
                           IF tried.threw THEN Throw(<<>>) ELSE tried)
        IN IF ~accepted(tried) /\ local.model < Len(models)
           THEN /\ local' = [local EXCEPT !.model = nextModel(local.model)]
                /\ Suspend("model", models[nextModel(local.model)], "language", l)
           ELSE MovAfterAnalysis(IF accepted(tried) THEN tried.val
                                 ELSE intelligentMovieAnalysis(body.field.v),
                                 l, randoms, elapsed)
    /\ UNCHANGED <<calls, page, endpoint, body, hfKey, qlooKey>>

\* variant of retriesSimplified: every primary query that brought no entity is
\* followed by the simplified one
retriesSimplifiedOnAnyFailure(outcome) ==
    outcome.kind # "ok" \/ Len(outcome.result) = 0

\* lines 337-352: the primary query is followed by the simplified one: its reply
\* is not 2xx and its text was read, or it is 2xx and holds no entity
retriesSimplified(outcome) ==
    outcome.kind = "non2xx" \/ (outcome.kind = "ok" /\ Len(outcome.result) = 0)

\* lines 335-366: the primary query settles: a reply that is not 2xx or holds no
\* entity starts the simplified query, an exception ends in the fallback list
MovPrimarySettles ==
    /\ endpoint = "movie"
    /\ pc = "primary"
    /\ \E outcome \in PrimaryOutcomes, randoms \in RandomStreams, elapsed \in ElapsedSamples :
        LET transformed == transformMovies(outcome.result, local.vibeParameters, body.field.v)
            l == logAnswer(log, outcome,
                           outcome.kind = "ok" /\ Len(outcome.result) > 0 /\ ~transformed.threw)
        IN IF retriesSimplified(outcome)
           THEN Suspend("simplified", "simplified query", "recommendation", l)
           ELSE Finish(similarResponse(local.movieAnalysis, local.vibeParameters, body.field.v,
                           IF outcome.kind = "ok" THEN transformed ELSE Throw(<<"f","e","t","c","h"," ","f","a","i","l","e","d">>),
                           randoms, elapsed), l)
    /\ UNCHANGED <<calls, page, endpoint, body, hfKey, qlooKey, local>>

\* lines 385-411: the simplified query settles: its movies, or the fallback list
MovSimplifiedSettles ==
    /\ endpoint = "movie"
    /\ pc = "simplified"
    /\ \E outcome \in MovieOutcomes, randoms \in RandomStreams, elapsed \in ElapsedSamples :
        LET transformed == transformMovies(outcome.result, local.vibeParameters, body.field.v)
            usable == outcome.kind = "ok" /\ Len(outcome.result) > 0
        IN Finish(similarResponse(local.movieAnalysis, local.vibeParameters, body.field.v,
                      IF usable THEN transformed ELSE Throw(<<"S","i","m","p","l","i","f","i","e","d"," ","q","u","e","r","y"," ","a","l","s","o"," ","f","a","i","l","e","d">>),
                      randoms, elapsed),
                  logAnswer(log, outcome, usable /\ ~transformed.threw))
    /\ UNCHANGED <<calls, page, endpoint, body, hfKey, qlooKey, local>>

----------------------------------------------------------------------------
(* The functions of the two route modules, called on their own *)

\* the most invocations of one function on the same arguments
MaxCalls == 2

\* one invocation: the function, its arguments, what the environment supplied
\* (the values Math.random returned) and what the invocation ended in
Invocation(fn, args, env, result) == [fn |-> fn, args |-> args, env |-> env, result |-> result]

\* a function may be invoked: for the first time, or again on the arguments of
\* the invocations before
mayCall(fn, args) ==
    /\ Len(calls) < MaxCalls
    /\ calls # <<>> => (calls[1].fn = fn /\ calls[1].args = args)

\* no handler is running
handlerIdle == UNCHANGED <<endpoint, body, hfKey, qlooKey, pc, inflight, log, local, response, page>>

\* a place entity with the given rating and keywords
placeWith(business_rating, keywords) ==
    Entity(Undefined, Str(<<"L","o","f","t"," ","D","i","n","e","r">>), Str(<<"u","r","n",":","e","n","t","i","t","y",":","p","l","a","c","e">>), Undefined,
           Properties(Undefined, Undefined, Undefined, business_rating, keywords))

\* business_rating values of an entity, in tenths
PlaceRatings == {Undefined, Num(0), Num(20), Num(40), Num(45), Num(50)}

\* keywords values of an entity
PlaceKeywords == {
    Undefined,
    Arr(<<>>),
    Arr(<<<<"M","o","d","e","r","n">>, <<"m","e","t","a","l","w","o","r","k">>, <<"b","r","u","n","c","h">>, <<"r","u","s","t","i","c">>>>),
    Arr(<<<<"M","e","t","a","l">>, <<"M","O","D","E","R","N">>, <<"R","u","s","t","i","c">>>>),
    Arr(<<<<"g","l","a","s","s","w","a","r","e">>>>),
    Arr(<<<<"a","r","t">>, <<"b","r","u","n","c","h">>>>) }

\* place entities transformQlooResponse is called with
PlaceEntities ==
    {placeWith(r, k) : r \in PlaceRatings, k \in PlaceKeywords} \cup {PlacePool[1], MalformedPlace}

\* structured analyses the functions are called with
Analyses == {
    defaultVibeAnalysis,
    Analysis(Str(<<"i","n","d","u","s","t","r","i","a","l"," ","c","h","i","c">>), Arr(<<<<"u","r","b","a","n">>>>), Str(<<"C","o","n","v","e","r","t","e","d"," ","f","a","c","t","o","r","y">>),
             Arr(<<<<"m","e","t","a","l">>, <<"m","o","d","e","r","n">>, <<"r","u","s","t","i","c">>, <<"g","l","a","s","s">>>>), Arr(<<<<"e","d","g","y">>, <<"c","r","e","a","t","i","v","e">>, <<"u","r","b","a","n">>>>)),
    Analysis(Str(<<"b","o","h","e","m","i","a","n"," ","e","c","l","e","c","t","i","c">>), Arr(<<<<"a","r","t","i","s","t","i","c">>>>), Str(<<"A"," ","s","t","u","d","i","o">>),
             Arr(<<<<"a","r","t","i","s","t","i","c">>, <<"d","i","n","i","n","g">>, <<"a","r","t","i","s","t","i","c">>, <<"b","r","i","g","h","t">>>>), Arr(<<<<"v","i","b","r","a","n","t">>, <<"v","i","b","r","a","n","t">>>>)),
    Analysis(Str(<<"c","o","z","y"," ","c","a","s","u","a","l">>), Arr(<<>>), Str(<<>>), Arr(<<>>), Arr(<<>>)) }

\* transformQlooResponse(qlooEntity, vibeAnalysis) is called
CallTransformQlooResponse ==
    /\ \E qlooEntity \in PlaceEntities, vibeAnalysis \in Analyses, random \in RandomIds :
          /\ mayCall("transformQlooResponse", <<qlooEntity, vibeAnalysis>>)
          /\ calls' = Append(calls, Invocation("transformQlooResponse", <<qlooEntity, vibeAnalysis>>,
                                 random, transformQlooResponse(qlooEntity, vibeAnalysis, random)))
    /\ handlerIdle

\* a movie entity with the given keywords
movieWith(keywords) ==
    Entity(Str(<<"M","7">>), Str(<<"S","h","o","p","l","i","f","t","e","r","s">>), Str(<<"u","r","n",":","e","n","t","i","t","y",":","m","o","v","i","e">>), Undefined,
           MovieProperties(Undefined, Num(2018), Undefined, keywords))

\* keywords values of a movie entity
MovieKeywords == {
    Undefined,
    Arr(<<>>),
    Arr(<<<<"h","e","i","s","t">>>>),
    Arr(<<<<"C","l","a","s","s">>, <<"h","e","i","s","t">>, <<"S","u","r","v","i","v","a","l">>>>),
    Arr(<<<<"C","l","a","s","s">>, <<"I","n","e","q","u","a","l","i","t","y">>, <<"s","u","r","v","i","v","a","l">>, <<"F","a","m","i","l","y">>>>),
    Arr(<<<<"C","l","a","s","s">>, <<"I","n","e","q","u","a","l","i","t","y">>, <<"s","u","r","v","i","v","a","l">>, <<"F","a","m","i","l","y">>, <<"K","o","r","e","a","n">>>>),
    Arr(<<<<"C","l","a","s","s">>, <<"I","n","e","q","u","a","l","i","t","y">>, <<"s","u","r","v","i","v","a","l">>, <<"F","a","m","i","l","y">>, <<"K","o","r","e","a","n">>, <<"D","a","r","k">>, <<"h","e","i","s","t">>>>),
    Str(<<"m","y","s","t","e","r","y">>) }

\* movie entities transformQlooMovieResponse is called with
MovieEntities == {movieWith(k) : k \in MovieKeywords} \cup {MoviePool[i] : i \in 1..Len(MoviePool)}

\* vibe parameters the functions are called with: those generateVibeParameters
\* returns for the analyses of movieDatabase, and ones without tags
VibeParameterSets ==
    {generateVibeParameters(movieDatabase[i].analysis).val : i \in 1..Len(movieDatabase)}
    \cup {[audiences |-> <<>>, tags |-> <<>>, entityType |-> <<"u","r","n",":","e","n","t","i","t","y",":","m","o","v","i","e">>],
          [audiences |-> <<<<"s","c","i","_","f","i","_","f","a","n","s">>>>, tags |-> <<<<"t","i","m","e">>, <<"s","c","i","-","f","i">>, <<"d","r","a","m","a">>>>,
           entityType |-> <<"u","r","n",":","e","n","t","i","t","y",":","m","o","v","i","e">>]}

\* transformQlooMovieResponse(qlooMovie, vibeParameters) is called
CallTransformQlooMovieResponse ==
    /\ \E qlooMovie \in MovieEntities, vibeParameters \in VibeParameterSets :
          /\ mayCall("transformQlooMovieResponse", <<qlooMovie, vibeParameters>>)
          /\ calls' = Append(calls, Invocation("transformQlooMovieResponse", <<qlooMovie, vibeParameters>>,
                                 <<>>, transformQlooMovieResponse(qlooMovie, vibeParameters)))
    /\ handlerIdle

\* getFallbackCategoryItems(category, vibeAnalysis) is called, with a category
\* its callers pass
CallGetFallbackCategoryItems ==
    /\ \E k \in 1..Len(fallbackCategories), vibeAnalysis \in Analyses :
          /\ mayCall("getFallbackCategoryItems", <<fallbackCategories[k], vibeAnalysis>>)
          /\ calls' = Append(calls, Invocation("getFallbackCategoryItems",
                                 <<fallbackCategories[k], vibeAnalysis>>, <<>>,
                                 getFallbackCategoryItems(fallbackCategories[k], vibeAnalysis)))
    /\ handlerIdle

\* descriptions intelligentVibeAnalysis is called with
Descriptions == {
    fallbackDescription,
    Str(<<>>),
    Str(<<"A"," ","b","o","w","l"," ","o","f"," ","f","r","u","i","t"," ","o","n"," ","a"," ","t","a","b","l","e">>),
    Str(<<"W","o","o","d",","," ","W","O","O","D"," ","a","n","d"," ","m","o","r","e"," ","w","o","o","d",";"," ","c","l","e","a","n"," ","a","n","d"," ","s","i","m","p","l","e">>),
    Str(<<"R","u","s","t","i","c"," ","m","e","t","a","l">>),
    Str(<<"E","L","E","G","A","N","T"," ","M","A","R","B","L","E"," ","l","o","b","b","y"," ","w","i","t","h"," ","G","o","l","d"," ","d","e","t","a","i","l","s">>),
    Str(<<"C","o","z","y"," ","l","o","f","t",","," ","i","n","d","u","s","t","r","i","a","l"," ","s","t","e","e","l",","," ","w","a","r","m"," ","a","n","d"," ","s","o","f","t",","," ","c","o","l","o","r","f","u","l"," ","p","l","a","n","t","s">>),
    Num(7) }

\* intelligentVibeAnalysis(description) is called
CallIntelligentVibeAnalysis ==
    /\ \E description \in Descriptions :
          /\ mayCall("intelligentVibeAnalysis", <<description>>)
          /\ calls' = Append(calls, Invocation("intelligentVibeAnalysis", <<description>>, <<>>,
                                 intelligentVibeAnalysis(description)))
    /\ handlerIdle


\* movie names getFallbackSimilarMovies is called with
OriginalMovies == {<<"H","e","a","t">>, <<"a","r","r","i","v","a","l">>, <<"M","a","n","c","h","e","s","t","e","r"," ","b","y"," ","t","h","e"," ","S","e","a">>, <<"k","n","i","v","e","s"," ","o","u","t">>}

\* vibe parameters with the given tags, and with primaryMood when it is given
parametersWith(tags, primaryMood) ==
    IF primaryMood = Undefined
    THEN [audiences |-> <<>>, tags |-> tags, entityType |-> <<"u","r","n",":","e","n","t","i","t","y",":","m","o","v","i","e">>]
    ELSE [audiences |-> <<>>, tags |-> tags, entityType |-> <<"u","r","n",":","e","n","t","i","t","y",":","m","o","v","i","e">>,
          primaryMood |-> primaryMood]

\* vibe parameters getFallbackSimilarMovies is called with
FallbackParameterSets == VibeParameterSets \cup {
    parametersWith(<<<<"c","o","m","e","d","y">>, <<"c","o","m","e","d","y">>>>, Undefined),
    parametersWith(<<<<"a","c","t","i","o","n">>, <<"i","n","t","e","n","s","e">>, <<"v","i","s","u","a","l">>>>, Undefined),
    parametersWith(<<<<"s","l","o","w","_","c","i","n","e","m","a">>>>, Str(<<"l","i","g","h","t">>)),
    parametersWith(<<<<"s","l","o","w","_","c","i","n","e","m","a">>>>, Str(<<"w","i","s","t","f","u","l">>)),
    parametersWith(<<<<"s","c","i","-","f","i">>, <<"a","c","t","i","o","n">>, <<"r","o","m","a","n","c","e">>, <<"t","h","r","i","l","l","e","r">>>>, Str(<<"d","a","r","k">>)),
    parametersWith(<<<<"c","o","n","s","t","r","u","c","t","o","r">>>>, Undefined) }

\* getFallbackSimilarMovies(vibeParameters, originalMovie) is called; randoms is
\* what Math.random() returns during the call
CallGetFallbackSimilarMovies ==
    /\ \E vibeParameters \in FallbackParameterSets, originalMovie \in OriginalMovies,
          randoms \in RandomStreams :
          /\ mayCall("getFallbackSimilarMovies", <<vibeParameters, originalMovie>>)
          /\ calls' = Append(calls, Invocation("getFallbackSimilarMovies",
                                 <<vibeParameters, originalMovie>>, randoms,
                                 getFallbackSimilarMovies(vibeParameters, originalMovie, randoms)))
    /\ handlerIdle

----------------------------------------------------------------------------
(* The upload widget: validateImageFile and ImageUpload.onDrop *)

\* const maxSize = 5 * 1024 * 1024
maxSize == 5 * 1024 * 1024

allowedTypes == {<<"i","m","a","g","e","/","j","p","e","g">>, <<"i","m","a","g","e","/","j","p","g">>, <<"i","m","a","g","e","/","p","n","g">>, <<"i","m","a","g","e","/","w","e","b","p">>}

File(type, size) == [type |-> type, size |-> size]

\* validateImageFile(file): the type check, then the size check
validateImageFile(file) ==
    IF file.type \notin allowedTypes
    THEN [valid |-> FALSE,
          error |-> Str(<<"P","l","e","a","s","e"," ","u","p","l","o","a","d"," ","a"," ","v","a","l","i","d"," ","i","m","a","g","e"," ","f","i","l","e"," ","(","J","P","E","G",","," ","P","N","G",","," ","o","r"," ","W","e","b","P",")">>)]
    ELSE IF file.size > maxSize
    THEN [valid |-> FALSE, error |-> Str(<<"I","m","a","g","e"," ","s","i","z","e"," ","m","u","s","t"," ","b","e"," ","l","e","s","s"," ","t","h","a","n"," ","5","M","B">>)]
    ELSE [valid |-> TRUE, error |-> Undefined]

\* ImageUpload.onDrop(acceptedFiles): what it sets the error to (Null for
\* setError(null), Undefined when it leaves it) and the files it passes to
\* onImageSelect
onDrop(acceptedFiles) ==
    IF Len(acceptedFiles) = 0
    THEN [error |-> Undefined, selected |-> <<>>]
    ELSE IF ~validateImageFile(acceptedFiles[1]).valid
    THEN [error |-> orElse(validateImageFile(acceptedFiles[1]).error, Str(<<"I","n","v","a","l","i","d"," ","f","i","l","e">>)),
          selected |-> <<>>]
    ELSE [error |-> Null, selected |-> <<acceptedFiles[1]>>]

\* the types and sizes of the files dropped on the widget
FileTypes == allowedTypes \cup {<<"i","m","a","g","e","/","g","i","f">>, <<"a","p","p","l","i","c","a","t","i","o","n","/","p","d","f">>, <<>>}
FileSizes == {0, 1, maxSize - 1, maxSize, maxSize + 1, 2 * maxSize}
Files == {File(type, size) : type \in FileTypes, size \in FileSizes}

\* validateImageFile(file) is called
CallValidateImageFile ==
    /\ \E file \in Files :
          /\ mayCall("validateImageFile", <<file>>)
          /\ calls' = Append(calls, Invocation("validateImageFile", <<file>>, <<>>,
                                 Return(validateImageFile(file))))
    /\ handlerIdle

\* a file, or none, is dropped on the widget
CallOnDrop ==
    /\ \E acceptedFiles \in {<<>>} \cup {<<file>> : file \in Files} :
          /\ mayCall("onDrop", <<acceptedFiles>>)
          /\ calls' = Append(calls, Invocation("onDrop", <<acceptedFiles>>, <<>>,
                                 Return(onDrop(acceptedFiles))))
    /\ handlerIdle

----------------------------------------------------------------------------
(* NextResponse.json(response): what a client reads back from the body *)

\* variant of jsonObject: properties whose value is undefined are kept
jsonObjectKeepingUndefined(o) == o

\* JSON.parse(JSON.stringify(o)) for an object whose property values are strings,
\* numbers, null or undefined: JSON.stringify leaves out a property whose value
\* is undefined
jsonObject(o) == [k \in {f \in DOMAIN o : o[f].t # "undefined"} |-> o[k]]

\* an item of /api/analyze read back: its other properties are strings, numbers
\* and arrays of strings
jsonPlaceItem(item) ==
    IF "qloo_data" \in DOMAIN item
    THEN [item EXCEPT !.qloo_data = jsonObject(item.qloo_data)]
    ELSE item

\* an item of /api/analyze-movie read back: year and rating are numbers, null or
\* undefined, its other properties strings, numbers and arrays of strings
jsonMovieItem(movie) ==
    [f \in {g \in DOMAIN movie : g \in {"year", "rating"} => movie[g].t # "undefined"} |->
        IF f = "qloo_data" THEN jsonObject(movie[f]) ELSE movie[f]]

\* a response body read back: JSON.parse of the text NextResponse.json wrote
jsonBody(b) ==
    IF "recommendations" \in DOMAIN b
    THEN [b EXCEPT !.recommendations =
            [i \in 1..Len(b.recommendations) |->
                [category |-> b.recommendations[i].category,
                 items |-> [j \in 1..Len(b.recommendations[i].items) |->
                               jsonPlaceItem(b.recommendations[i].items[j])]]]]
    ELSE IF "similarMovies" \in DOMAIN b
    THEN [b EXCEPT !.similarMovies =
            [j \in 1..Len(b.similarMovies) |-> jsonMovieItem(b.similarMovies[j])]]
    ELSE b
----------------------------------------------------------------------------
(* The two pages: HomePage (/) and MovieVibePage (/movie-vibe) *)

\* the most submissions made on one page
MaxSubmissions == 3

\* the state of a page: the four useState values (input is imagePreview or
\* movieName), what the running handler awaits ("none" | "encoding" | "api" |
\* "timer"), the response the timer callback closes over, and three records
\* of the past: the states set since the last submission began, the number of
\* submissions, and the step that ran last
Page(kind, state, results, error, input, awaiting, response_, trail, submissions, last) ==
    [kind |-> kind, state |-> state, results |-> results, error |-> error, input |-> input,
     awaiting |-> awaiting, response |-> response_, trail |-> trail,
     submissions |-> submissions, last |-> last]

\* HomePage as first rendered
HomePage == Page("home", "idle", Null, Null, <<>>, "none", Null, <<>>, 0, "render")

\* MovieVibePage as first rendered
MovieVibePage == Page("movie", "idle", Null, Null, <<>>, "none", Null, <<>>, 0, "render")

\* handleImageSelect up to its first await
handleImageSelect(p, preview) ==
    [p EXCEPT !.state = "uploading", !.error = Null, !.input = preview,
              !.awaiting = "encoding", !.trail = <<"uploading">>,
              !.submissions = @ + 1, !.last = "handleImageSelect"]

\* handleImageSelect from convertImageToBase64 resolving to its second await
encoded(p) ==
    [p EXCEPT !.state = "analyzing", !.awaiting = "api", !.trail = Append(@, "analyzing"),
              !.last = "encoded"]

\* handleMovieSubmit up to its await
handleMovieSubmit(p, movie) ==
    [p EXCEPT !.state = "analyzing", !.error = Null, !.input = movie,
              !.awaiting = "api", !.trail = <<"analyzing">>,
              !.submissions = @ + 1, !.last = "handleMovieSubmit"]

\* variant of posted: the results are shown as soon as the API call succeeds
postedAtOnce(p, data) ==
    [p EXCEPT !.results = data, !.state = "complete", !.awaiting = "none",
              !.trail = Append(@, "complete"), !.last = "posted"]

\* either handler from axios.post resolving to the end of its try block
posted(p, data) ==
    [p EXCEPT !.state = "generating", !.awaiting = "timer", !.response = data,
              !.trail = Append(@, "generating"), !.last = "posted"]

\* the callback given to setTimeout
timeout(p) ==
    [p EXCEPT !.results = p.response, !.state = "complete", !.awaiting = "none",
              !.response = Null, !.trail = Append(@, "complete"), !.last = "timeout"]

\* what may be thrown inside the try block: an axios error with the body of
\* the response, or anything else
AxiosError(data) == [axios |-> TRUE, data |-> data]

\* a thrown value that is no axios error
OtherError == [axios |-> FALSE, data |-> Undefined]

\* the body of a failed response: what JSON gave, with its error field
ErrorBody(error) == [t |-> "object", error |-> error]

\* the message the catch block stores
errorMessage(err) ==
    IF err.axios /\ truthy(err.data)
    THEN orElse(err.data.error, Str(<<"A","n","a","l","y","s","i","s"," ","f","a","i","l","e","d">>))
    ELSE Str(<<"S","o","m","e","t","h","i","n","g"," ","w","e","n","t"," ","w","r","o","n","g","."," ","P","l","e","a","s","e"," ","t","r","y"," ","a","g","a","i","n",".">>)

\* the catch block of either handler
caught(p, err) ==
    [p EXCEPT !.state = "error", !.error = errorMessage(err), !.awaiting = "none",
              !.trail = Append(@, "error"), !.last = "caught"]

\* variant of resetApp: the stored input is kept
resetAppKeepingInput(p) ==
    [p EXCEPT !.state = "idle", !.results = Null, !.error = Null, !.last = "resetApp"]

\* resetApp of either page
resetApp(p) ==
    [p EXCEPT !.state = "idle", !.results = Null, !.error = Null, !.input = <<>>,
              !.last = "resetApp"]

\* previews the upload widget hands over, and titles the movie form hands over
Previews == {<<"d","a","t","a",":","i","m","a","g","e","/","p","n","g",";","b","a","s","e","6","4",",","A","A","A","A">>, <<"d","a","t","a",":","i","m","a","g","e","/","j","p","e","g",";","b","a","s","e","6","4",",","B","B","B","B">>, <<"d","a","t","a",":","i","m","a","g","e","/","w","e","b","p",";","b","a","s","e","6","4",",","C","C","C","C">>}
Movies == {<<"P","a","r","a","s","i","t","e">>, <<"H","e","a","t">>, <<"S","p","i","r","i","t","e","d"," ","A","w","a","y">>}

\* bodies of 2xx responses of the two routes
ResponseData == {[t |-> "object", success |-> TRUE, recommendations |-> n] : n \in {0, 6}}

\* what the API call may throw
ApiErrors ==
    {AxiosError(ErrorBody(Str(<<"F","a","i","l","e","d"," ","t","o"," ","a","n","a","l","y","z","e"," ","v","i","b","e">>))), AxiosError(ErrorBody(Str(<<>>))),
     AxiosError(ErrorBody(Undefined)), AxiosError(Str(<<>>)), AxiosError(Undefined), OtherError}

\* no route handler runs and no function is called on its own
onlyPage == UNCHANGED <<endpoint, body, hfKey, qlooKey, pc, inflight, log, local, response, calls>>

\* the upload widget, rendered while the state is 'idle', hands over an image
SelectImage ==
    /\ page.kind = "home"
    /\ page.state = "idle"
    /\ page.submissions < MaxSubmissions
    /\ \E preview \in Previews : page' = handleImageSelect(page, preview)
    /\ onlyPage

\* convertImageToBase64 resolves
ImageEncoded ==
    /\ page.awaiting = "encoding"
    /\ page' = encoded(page)
    /\ onlyPage

\* convertImageToBase64 rejects with the reader's error event
EncodingFails ==
    /\ page.awaiting = "encoding"
    /\ page' = caught(page, OtherError)
    /\ onlyPage

\* the movie form or an example button, rendered while the state is 'idle',
\* hands over a title
SubmitMovie ==
    /\ page.kind = "movie"
    /\ page.state = "idle"
    /\ page.submissions < MaxSubmissions
    /\ \E movie \in Movies : page' = handleMovieSubmit(page, movie)
    /\ onlyPage

\* axios.post resolves
ApiSucceeds ==
    /\ page.awaiting = "api"
    /\ \E data \in ResponseData : page' = posted(page, data)
    /\ onlyPage

\* axios.post rejects
ApiFails ==
    /\ page.awaiting = "api"
    /\ \E err \in ApiErrors : page' = caught(page, err)
    /\ onlyPage

\* the 1500 ms timer fires
TimerFires ==
    /\ page.awaiting = "timer"
    /\ page' = timeout(page)
    /\ onlyPage

\* the 'Try Again' button, rendered while the state is 'error', is clicked
ResetApp ==
    /\ page.state = "error"
    /\ page' = resetApp(page)
    /\ onlyPage
----------------------------------------------------------------------------
(* Properties *)

\* the request carries its required field, non-empty
InputPresent == body.parsed /\ truthy(body.field)

\* the handler has returned
Answered == pc = "done"

\* the calls of the request that went to dependency dep
callsTo(dep) == {i \in 1..Len(log) : log[i].dep = dep}

\* the recommendations of a 200 response name exactly the four categories, each once
FourCategories(recommendations) ==
    /\ Len(recommendations) = 4
    /\ \A c \in {"restaurants", "music", "activities", "experiences"} :
          Cardinality({i \in 1..Len(recommendations) : recommendations[i].category = c}) = 1

\* C1: POST /api/analyze with a non-empty imageBase64 and HUGGINGFACE_API_KEY set
\* ends in HTTP 200 whatever the caption call, the language-model call and the
\* recommendation calls end in, a generated text holding a JSON object that lacks
\* analysis fields included.
C1_AnalyzeAlways200 ==
    (endpoint = "analyze" /\ Answered /\ InputPresent /\ hfKey) => response.status = 200

\* C2: POST /api/analyze-movie with a non-empty string movieName and
\* HUGGINGFACE_API_KEY set ends in HTTP 200 whatever the model calls and the
\* recommendation queries end in, JSON whose themes, genres or culturalKeywords
\* are not lists of strings included.
C2_MovieAlways200 ==
    (endpoint = "movie" /\ Answered /\ InputPresent /\ body.field.t = "string" /\ hfKey)
        => response.status = 200

\* C3: when the required input field is absent or empty the handler returns
\* status 400 and issues no outbound call, whether or not the credential is set.
C3_MissingInputIs400 ==
    (body.parsed /\ ~truthy(body.field)) =>
        /\ log = <<>>
        /\ inflight = {}
        /\ Answered => response.status = 400

\* an empty movie name is answered 400 although the inference credential is missing
C3_Witness ==
    /\ endpoint = "movie"
    /\ Answered
    /\ body = Body(TRUE, Str(<<>>))
    /\ ~hfKey
    /\ response.status = 400
    /\ log = <<>>

C5_CaptionFailureStillComplete ==
    (endpoint = "analyze" /\ Answered /\ InputPresent /\ hfKey /\ Len(log) > 0 /\ ~log[1].ok) =>
        /\ response.status = 200
        /\ response.body.vibeAnalysis.primaryVibe.t = "string"
        /\ Len(response.body.vibeAnalysis.primaryVibe.v) > 0
        /\ FourCategories(response.body.recommendations)

\* C6: movieName "Parasite" with every dependency call failing returns HTTP 200
\* with movieAnalysis.genres containing "thriller" or "drama" and similarMovies
\* holding a movie with a non-empty title other than "Parasite".
C6_ParasiteOffline ==
    (/\ endpoint = "movie"
     /\ Answered
     /\ body = Body(TRUE, Str(<<"P","a","r","a","s","i","t","e">>))
     /\ hfKey
     /\ \A i \in 1..Len(log) : ~log[i].ok) =>
        /\ response.status = 200
        /\ \E i \in 1..Len(response.body.movieAnalysis.genres.v) :
              response.body.movieAnalysis.genres.v[i] \in {<<"t","h","r","i","l","l","e","r">>, <<"d","r","a","m","a">>}
        /\ \E i \in 1..Len(response.body.similarMovies) :
              /\ Len(response.body.similarMovies[i].title) > 0
              /\ response.body.similarMovies[i].title # <<"P","a","r","a","s","i","t","e">>

\* "Parasite", both credentials set, all three models and both queries failed
C6_Witness ==
    /\ endpoint = "movie"
    /\ Answered
    /\ body = Body(TRUE, Str(<<"P","a","r","a","s","i","t","e">>))
    /\ hfKey
    /\ qlooKey
    /\ Len(log) = 5
    /\ \A i \in 1..Len(log) : ~log[i].ok
    /\ response.status = 200

\* C7: without QLOO_API_KEY the request still succeeds, no call goes to the
\* recommendation endpoint, and every category of /api/analyze and the
\* similarMovies of /api/analyze-movie come from the fallback generator.
C7_NoQlooKeyStillSucceeds ==
    (Answered /\ InputPresent /\ hfKey /\ ~qlooKey) =>
        /\ response.status = 200
        /\ callsTo("recommendation") = {}
        /\ endpoint = "analyze" =>
              Return(response.body.recommendations)
                  = getFallbackRecommendations(response.body.vibeAnalysis)
        /\ endpoint = "movie" =>
              \E randoms \in RandomStreams :
                  Return(response.body.similarMovies)
                      = getFallbackSimilarMovies(response.body.vibeParameters, body.field.v, randoms)

\* the stage a dependency is called in
stageOf(dep) == CASE dep = "vision" -> 1 [] dep = "language" -> 2 [] OTHER -> 3

\* C8: the stages of a request run strictly in order: a call is issued only when
\* every earlier call has settled, the language-model call after Stage 1 has
\* produced its description, every recommendation call after the Stage-2
\* analysis is available, and no two calls are in flight at the same time.
C8_StagesSequential ==
    /\ Cardinality(inflight) <= 1
    /\ \A i \in 1..(Len(log) - 1) : log[i].settled
    /\ inflight # {} <=> (Len(log) > 0 /\ ~log[Len(log)].settled)
    /\ \A i, j \in 1..Len(log) : i < j => stageOf(log[i].dep) <= stageOf(log[j].dep)
    /\ (endpoint = "analyze" /\ callsTo("language") # {}) =>
          /\ log[1].dep = "vision"
          /\ log[1].settled
          /\ local.imageDescription # Undefined
    /\ (endpoint = "analyze" /\ callsTo("recommendation") # {}) =>
          /\ \E i \in callsTo("language") : log[i].settled
          /\ local.vibeAnalysis # Undefined
    /\ (endpoint = "movie" /\ callsTo("recommendation") # {}) =>
          /\ \A i \in callsTo("language") : log[i].settled
          /\ local.movieAnalysis # Undefined
          /\ local.vibeParameters # Undefined

\* /api/analyze has answered after its four calls, one after the other
C8_Witness ==
    /\ endpoint = "analyze"
    /\ Answered
    /\ Len(log) = 4
    /\ response.status = 200

\* C9 as stated: after a call to a dependency has failed or returned unusable
\* output, no further call to that dependency is issued for the same request.
C9_NoCallAfterFailure ==
    \A i, j \in 1..Len(log) :
        (i < j /\ log[i].dep = log[j].dep) => (log[i].settled /\ log[i].used)

\* C9 as amended: no call of a request is issued twice, but a dependency is
\* called again after a failure: at most one call goes to the caption model, at
\* most three to the language models (the three candidate models of the movie
\* path) and at most two to the recommendation endpoint (the two categories of
\* the image path; the primary and the simplified query of the movie path).
C9_NoCallRepeated ==
    /\ \A i, j \in 1..Len(log) : i < j => log[i].call # log[j].call
    /\ Cardinality(callsTo("vision")) <= 1
    /\ Cardinality(callsTo("language")) <= 3
    /\ Cardinality(callsTo("recommendation")) <= 2

\* three models and two queries were tried, each after the one before it failed
C9_Witness ==
    /\ endpoint = "movie"
    /\ Answered
    /\ Len(log) = 5
    /\ \A i \in 1..Len(log) : ~log[i].used

\* the summary of a returned analysis is a string of more than 20 characters
longSummary(result) ==
    /\ ~result.threw
    /\ result.val.summary.t = "string"
    /\ Len(result.val.summary.v) > 20

\* the model calls of the request that have settled
settledModels == {i \in callsTo("language") : log[i].settled}

\* C10: analyzeMovieWithHF calls the models in the order primary, backup,
\* alternative; model k+1 only if model k threw or returned a summary of at most
\* 20 characters; the first analysis with a longer summary is returned and no
\* later model is called; if none of the three qualifies the built-in analysis
\* of the movie name is returned.
C10_ModelsInOrder ==
    endpoint = "movie" =>
        /\ \A i \in callsTo("language") : i <= Len(models) /\ log[i].call = models[i]
        /\ \A i \in callsTo("language") : \A j \in 1..(i - 1) :
              log[j].settled /\ ~longSummary(log[j].result)
        /\ \A i \in settledModels : longSummary(log[i].result) =>
              /\ local.movieAnalysis = log[i].result.val
              /\ \A j \in callsTo("language") : j <= i
        /\ (local.movieAnalysis # Undefined /\ \A i \in settledModels : ~longSummary(log[i].result)) =>
              /\ Cardinality(settledModels) = Len(models)
              /\ local.movieAnalysis = intelligentMovieAnalysis(body.field.v)

\* the first two models failed to qualify, the third returned a long summary
C10_Witness ==
    /\ endpoint = "movie"
    /\ Cardinality(settledModels) = 3
    /\ ~longSummary(log[1].result)
    /\ ~log[2].result.threw /\ ~longSummary(log[2].result)
    /\ longSummary(log[3].result)
    /\ local.movieAnalysis = log[3].result.val

\* all three models were tried and none qualified
C10_WitnessBuiltIn ==
    /\ endpoint = "movie"
    /\ Cardinality(settledModels) = 3
    /\ \A i \in settledModels : ~longSummary(log[i].result)
    /\ local.movieAnalysis = intelligentMovieAnalysis(body.field.v)

\* the five fields of a structured analysis
analysisFields ==
    {"primaryVibe", "secondaryVibes", "culturalContext", "aestheticKeywords", "moodDescriptors"}

\* C11: in /api/analyze, a language-model text whose JSON object lacks a required
\* field is replaced by the keyword analyzer's output, so every 200 response
\* carries a vibeAnalysis with all five fields.
C11_AnalysisHasFiveFields ==
    (endpoint = "analyze" /\ Answered /\ response.status = 200) =>
        \A f \in analysisFields : response.body.vibeAnalysis[f] # Undefined

\* the invocations made of fn that returned
returnedCalls(fn) == {i \in 1..Len(calls) : calls[i].fn = fn /\ ~calls[i].result.threw}

\* two words share a term: one contains the other, letter case aside
sharesTerm(a, b) ==
    \/ includes(toLowerCase(a), toLowerCase(b))
    \/ includes(toLowerCase(b), toLowerCase(a))

\* the entity's keywords, <<>> when it has none
keywordsOfEntity(entity) ==
    IF entity.properties = Undefined \/ entity.properties.keywords = Undefined
    THEN <<>> ELSE entity.properties.keywords.v

\* m: how many of the entity's first three keywords share a term with some of
\* the analysis's aestheticKeywords
sharedKeywordCount(entity, analysis) ==
    Cardinality({k \in 1..Len(keywordsOfEntity(entity)) :
        /\ k <= 3
        /\ \E j \in 1..Len(analysis.aestheticKeywords.v) :
              sharesTerm(keywordsOfEntity(entity)[k], analysis.aestheticKeywords.v[j])})

\* r: the entity's rating in tenths, 0 when absent
ratingOfEntity(entity) ==
    IF entity.properties = Undefined \/ entity.properties.business_rating = Undefined
    THEN 0 ELSE entity.properties.business_rating.v

\* min(0.95, 0.6 + 0.1*m + 0.05*r) in thousandths, r in tenths
cappedConfidence(m, r) ==
    IF 600 + (100 * m) + (5 * r) < 950 THEN 600 + (100 * m) + (5 * r) ELSE 950

\* C12: the confidence of an item transformQlooResponse builds equals
\* min(0.95, 0.6 + 0.1*m + 0.05*r); m = 2 and r = 4.5 give exactly 0.95; for every
\* r >= 0 the confidence lies in [0.6, 0.95].
C12_ConfidenceFormula ==
    \A i \in returnedCalls("transformQlooResponse") :
        LET entity == calls[i].args[1]
            m == sharedKeywordCount(entity, calls[i].args[2])
            r == ratingOfEntity(entity)
            confidence == calls[i].result.val.confidence
        IN /\ confidence = cappedConfidence(m, r)
           /\ (m = 2 /\ r = 45) => confidence = 950
           /\ r >= 0 => (600 <= confidence /\ confidence <= 950)

\* an entity with two matching keywords among its first three and rating 4.5 was
\* transformed
C12_Witness ==
    \E i \in returnedCalls("transformQlooResponse") :
        /\ sharedKeywordCount(calls[i].args[1], calls[i].args[2]) = 2
        /\ ratingOfEntity(calls[i].args[1]) = 45
        /\ calls[i].result.val.confidence = 950

\* s: how many of the entity's keywords contain, or are contained in, some tag
sharedTagCount(entity, vibeParameters) ==
    Cardinality({k \in 1..Len(keywordsOfEntity(entity)) :
        \E j \in 1..Len(vibeParameters.tags) :
            sharesTerm(keywordsOfEntity(entity)[k], vibeParameters.tags[j])})

\* min(0.95, 0.6 + 0.08*s) in thousandths
cappedMatchScore(s) == IF 600 + (80 * s) < 950 THEN 600 + (80 * s) ELSE 950

\* C13: the matchScore of an item transformQlooMovieResponse builds equals
\* min(0.95, 0.6 + 0.08*s); it lies in [0.6, 0.95] and does not decrease when s
\* grows.
C13_MatchScoreFormula ==
    \A i \in returnedCalls("transformQlooMovieResponse") :
        LET s == sharedTagCount(calls[i].args[1], calls[i].args[2])
            matchScore == calls[i].result.val.matchScore
        IN /\ matchScore = cappedMatchScore(s)
           /\ 600 <= matchScore /\ matchScore <= 950
           /\ \A fewer \in 0..s : movieMatchScore(fewer) <= matchScore

\* a movie entity with four matching keywords was transformed, below the cap
C13_Witness ==
    \E i \in returnedCalls("transformQlooMovieResponse") :
        /\ sharedTagCount(calls[i].args[1], calls[i].args[2]) = 4
        /\ calls[i].result.val.matchScore = 920

\* the literal words of the tags of the fallback table
tagVocabulary == {
    <<"d","i","n","i","n","g">>, <<"r","e","s","t","a","u","r","a","n","t">>, <<"c","o","n","t","e","m","p","o","r","a","r","y">>, <<"p","l","a","y","l","i","s","t">>, <<"a","m","b","i","e","n","t">>, <<"s","o","u","n","d","s","c","a","p","e">>, <<"c","u","l","t","u","r","e">>,
    <<"g","a","l","l","e","r","y">>, <<"w","o","r","k","s","h","o","p">>, <<"c","r","e","a","t","i","v","e">>, <<"t","o","u","r">>, <<"e","x","p","e","r","i","e","n","c","e">>, <<"i","m","m","e","r","s","i","v","e">>, <<"c","u","r","a","t","e","d">> }

\* the elements of a sequence
elementsOf(s) == {s[i] : i \in 1..Len(s)}

\* C14: every item the fallback generator produces for a structured analysis and
\* one of the four categories has tags out of aestheticKeywords, moodDescriptors
\* and a fixed vocabulary, without duplicates, and a confidence in [0, 1].
C14_FallbackTags ==
    \A i \in returnedCalls("getFallbackCategoryItems") :
        LET vibeAnalysis == calls[i].args[2]
            items == calls[i].result.val
        IN \A k \in 1..Len(items) :
            /\ elementsOf(items[k].tags) \subseteq
                  (elementsOf(vibeAnalysis.aestheticKeywords.v)
                   \cup elementsOf(vibeAnalysis.moodDescriptors.v) \cup tagVocabulary)
            /\ \A a, b \in 1..Len(items[k].tags) : a # b => items[k].tags[a] # items[k].tags[b]
            /\ 0 <= items[k].confidence /\ items[k].confidence <= 1000

\* items were produced for an analysis whose aestheticKeywords repeat a word and
\* hold a word of the vocabulary
C14_Witness ==
    \E i \in returnedCalls("getFallbackCategoryItems") :
        /\ calls[i].args[1] = "restaurants"
        /\ calls[i].args[2].aestheticKeywords.v = <<<<"a","r","t","i","s","t","i","c">>, <<"d","i","n","i","n","g">>, <<"a","r","t","i","s","t","i","c">>, <<"b","r","i","g","h","t">>>>
        /\ calls[i].result.val[1].tags = <<<<"a","r","t","i","s","t","i","c">>, <<"d","i","n","i","n","g">>, <<"r","e","s","t","a","u","r","a","n","t">>>>

occurrencesIn(text, sub) ==
    Cardinality({p \in 1..(Len(text) - Len(sub) + 1) : SubSeq(text, p, p + Len(sub) - 1) = sub})

\* the occurrences, letter case aside, of the triggers of label k in the text
occurrenceScore(text, k) ==
    Cardinality({tp \in (1..Len(vibePatterns[k].keywords)) \X (1..Len(text)) :
        /\ tp[2] + Len(vibePatterns[k].keywords[tp[1]]) - 1 <= Len(text)
        /\ SubSeq(toLowerCase(text), tp[2], tp[2] + Len(vibePatterns[k].keywords[tp[1]]) - 1)
              = vibePatterns[k].keywords[tp[1]]})

\* the triggers of label k that occur, letter case aside, in the text
presenceScore(text, k) ==
    Cardinality({t \in 1..Len(vibePatterns[k].keywords) :
        occurrencesIn(toLowerCase(text), vibePatterns[k].keywords[t]) > 0})

\* the label with the highest score, the first of the table among equals, the
\* default label when every score is zero
labelOfScores(scores) ==
    IF \A k \in 1..Len(scores) : scores[k] = 0 THEN <<"c","o","n","t","e","m","p","o","r","a","r","y">>
    ELSE vibePatterns[CHOOSE b \in 1..Len(scores) :
             /\ \A k \in 1..Len(scores) : scores[k] <= scores[b]
             /\ \A k \in 1..(b - 1) : scores[k] < scores[b]].vibe

withoutRating(movie) == [f \in DOMAIN movie \ {"rating"} |-> movie[f]]

\* two lists of similar movies agree on the length, the order and every field
\* of every item but the rating
agreeButRating(a, b) ==
    /\ Len(a) = Len(b)
    /\ \A k \in 1..Len(a) : withoutRating(a[k]) = withoutRating(b[k])

\* a rating of v ten-thousandths less some steps of 2^-49 is at least 7.0
ratingAtLeastBottom(rating) ==
    rating.v > 70000 \/ (rating.v = 70000 /\ rating.below = 0)

\* a rating is at least 7.0 and at most 9.5
ratingInClosedRange(rating) ==
    /\ rating.t = "number"
    /\ ratingAtLeastBottom(rating)
    /\ rating.below >= 0
    /\ rating.v <= 95000

\* a rating is at least 7.0 and less than 9.5
ratingBelowTop(rating) ==
    /\ rating.t = "number"
    /\ ratingAtLeastBottom(rating)
    /\ rating.below >= 0
    /\ rating.v < 95000 \/ (rating.v = 95000 /\ rating.below > 0)

\* C18 (half-open range): two runs of getFallbackSimilarMovies on the same vibe
\* parameters and original movie agree on everything but the ratings, and every
\* rating is at least 7.0 and less than 9.5.
C18_RatingOnlyJitterBelowTop ==
    \A i \in returnedCalls("getFallbackSimilarMovies") :
        /\ \A j \in returnedCalls("getFallbackSimilarMovies") :
               calls[j].args = calls[i].args => agreeButRating(calls[i].result.val, calls[j].result.val)
        /\ \A k \in 1..Len(calls[i].result.val) : ratingBelowTop(calls[i].result.val[k].rating)

\* C18 (closed range): two runs of getFallbackSimilarMovies on the same vibe
\* parameters and original movie agree on the list length, the order, and every
\* item's title, description, year, matchScore, reason and sharedElements; they
\* may differ only in the rating, which is at least 7.0 and at most 9.5.
C18_RatingOnlyJitter ==
    \A i \in returnedCalls("getFallbackSimilarMovies") :
        /\ \A j \in returnedCalls("getFallbackSimilarMovies") :
               calls[j].args = calls[i].args => agreeButRating(calls[i].result.val, calls[j].result.val)
        /\ \A k \in 1..Len(calls[i].result.val) :
               /\ DOMAIN calls[i].result.val[k] =
                      {"title", "description", "year", "rating", "matchScore", "reason", "sharedElements"}
               /\ ratingInClosedRange(calls[i].result.val[k].rating)

\* the generator ran twice on the same arguments; the first run rated the first
\* movie 7.0 and the second run, with Math.random() one step below 1, rated it 9.5
C18_Witness ==
    /\ Len(calls) = 2
    /\ calls[1].fn = "getFallbackSimilarMovies"
    /\ calls[2].fn = "getFallbackSimilarMovies"
    /\ ~calls[1].result.threw
    /\ ~calls[2].result.threw
    /\ Len(calls[1].result.val) = 6
    /\ calls[2].env[1] = BelowOne(1)
    /\ calls[1].result.val[1].rating = Float(70000, 0)
    /\ calls[2].result.val[1].rating = Float(95000, 0)
    /\ calls[2].result.val[5].rating = Float(95000, 1)
    /\ calls[1].result.val[1].title = calls[2].result.val[1].title

\* the items of a response body, of every category for /api/analyze
itemsOfBody(b) ==
    IF "recommendations" \in DOMAIN b
    THEN flatten([i \in 1..Len(b.recommendations) |-> b.recommendations[i].items])
    ELSE IF "similarMovies" \in DOMAIN b THEN b.similarMovies
    ELSE <<>>

\* an item read back has every property of the original with its value, but for
\* the properties of qloo_data whose value is undefined, which it lacks
survivesButUndefinedIds(item, back) ==
    /\ DOMAIN back = DOMAIN item
    /\ \A f \in DOMAIN item \ {"qloo_data"} : back[f] = item[f]
    /\ "qloo_data" \in DOMAIN item =>
          /\ DOMAIN back.qloo_data = {f \in DOMAIN item.qloo_data : item.qloo_data[f] # Undefined}
          /\ \A f \in DOMAIN back.qloo_data : back.qloo_data[f] = item.qloo_data[f]

isCritical == response.status = 500 /\ "code" \in DOMAIN response.body

\* the exception that can have reached the catch-all of the finished handler:
\* the one of request.json(), the one of the fallback generator of Step 3, for
\* /api/analyze-movie the one of generateVibeParameters; a Return when there is none
escapingException ==
    IF ~body.parsed THEN Throw(<<"U","n","e","x","p","e","c","t","e","d"," ","e","n","d"," ","o","f"," ","J","S","O","N"," ","i","n","p","u","t">>)
    ELSE IF endpoint = "analyze"
    THEN IF local.vibeAnalysis = Undefined THEN Return(Undefined)
         ELSE getFallbackRecommendations(local.vibeAnalysis)
    ELSE IF local.movieAnalysis = Undefined THEN Return(Undefined)
    ELSE IF generateVibeParameters(local.movieAnalysis).threw
    THEN generateVibeParameters(local.movieAnalysis)
    ELSE getFallbackSimilarMovies(local.vibeParameters, body.field.v,
                                  CHOOSE randoms \in RandomStreams : TRUE)

\* C20: a handler always returns a response, with status 200, 400 or 500; a
\* request body that cannot be parsed is answered from the catch-all; and an
\* answer from the catch-all has status 500 and a body of error, details and
\* code, code being ANALYSIS_ERROR or MOVIE_ANALYSIS_ERROR by the endpoint and
\* details the message of the exception that escaped.
C20_CatchAllCarriesMessage ==
    pc = "done" =>
        /\ response.status \in {200, 400, 500}
        /\ ~body.parsed => isCritical
        /\ isCritical =>
              /\ DOMAIN response.body = {"error", "details", "code"}
              /\ response.body.code = IF endpoint = "analyze" THEN <<"A","N","A","L","Y","S","I","S","_","E","R","R","O","R">>
                                      ELSE <<"M","O","V","I","E","_","A","N","A","L","Y","S","I","S","_","E","R","R","O","R">>
              /\ escapingException.threw
              /\ response.body.details = escapingException.msg
        /\ response.status = 500 /\ ~isCritical => ~hfKey

\* a handler whose request body parsed answered from its catch-all, with the
\* message of the TypeError that left Step 3
C20_Witness ==
    /\ pc = "done"
    /\ body.parsed
    /\ isCritical
    /\ escapingException.threw
    /\ response.body.details = escapingException.msg
    /\ response.body.details # <<"U","n","e","x","p","e","c","t","e","d"," ","e","n","d"," ","o","f"," ","J","S","O","N"," ","i","n","p","u","t">>

----------------------------------------------------------------------------
(* Claims about the recommendation stages, the fallback list of movies, and  *)
(* the pages                                                                 *)

\* /api/analyze answered 200 after Stage 3 ran with the recommendation credential
analyzedWithCredential ==
    endpoint = "analyze" /\ pc = "done" /\ qlooKey /\ response.status = 200

\* the calls of the request to the recommendations endpoint for category c
callsFor(c) == {i \in 1..Len(log) : log[i].dep = "recommendation" /\ log[i].call = c}

\* the items the response holds for category c
itemsFor(c) ==
    response.body.recommendations[
        CHOOSE i \in 1..Len(response.body.recommendations) :
            response.body.recommendations[i].category = c].items

\* the items of category c are the ones of the fallback table
isFallback(c) ==
    itemsFor(c) = getFallbackCategoryItems(c, response.body.vibeAnalysis).val

smallImage(file) == file.type \in allowedTypes /\ file.size < maxSize

\* C22: validateImageFile accepts a file if and only if its type is one of
\* image/jpeg, image/jpg, image/png, image/webp and its size is less than
\* 5 * 1024 * 1024 bytes, and the upload widget passes a file on only when the
\* check accepts it.
C22_AcceptsBelowMaxOnly ==
    /\ \A i \in returnedCalls("validateImageFile") :
           calls[i].result.val.valid <=> smallImage(calls[i].args[1])
    /\ \A i \in returnedCalls("onDrop") :
           \A k \in 1..Len(calls[i].result.val.selected) :
               /\ validateImageFile(calls[i].result.val.selected[k]).valid
               /\ smallImage(calls[i].result.val.selected[k])

\* the recommendations pushed so far, once the step has been taken
pushedAfter ==
    IF pc' = "done"
    THEN IF response'.status = 200 THEN response'.body.recommendations
         ELSE local.recommendations
    ELSE local'.recommendations

\* C23: when the call for a queried category settles, the entries pushed before
\* stay as they are; a failed call pushes the category with the items of
\* getFallbackCategoryItems(category, analysis); and no category has more than
\* 2 items.
C23_FailureReplacesOnlyItsCategory ==
    [][(endpoint = "analyze" /\ pc = "qloo") =>
        /\ Len(pushedAfter) >= Len(local.recommendations)
        /\ \A k \in 1..Len(local.recommendations) : pushedAfter[k] = local.recommendations[k]
        /\ (~log'[Len(log)].ok /\ Len(pushedAfter) > Len(local.recommendations)) =>
              pushedAfter[Len(local.recommendations) + 1] =
                  [category |-> queriedCategories[local.category],
                   items |-> getFallbackCategoryItems(queriedCategories[local.category],
                                                      local.vibeAnalysis).val]
        /\ \A k \in 1..Len(pushedAfter) : Len(pushedAfter[k].items) <= 2]_vars

\* the call for restaurants failed and its items are fallback items, while the
\* items of experiences, obtained later, are the endpoint's
C23_Witness ==
    /\ analyzedWithCredential
    /\ \E i \in callsFor("restaurants") : log[i].settled /\ ~log[i].ok
    /\ isFallback("restaurants")
    /\ \E i \in callsFor("experiences") : log[i].ok /\ log[i].used
    /\ Len(itemsFor("experiences")) \in {1, 2}
    /\ \A k \in 1..Len(itemsFor("experiences")) : "qloo_data" \in DOMAIN itemsFor("experiences")[k]

\* the queries of the request to the recommendations endpoint, by kind
primaryCalls == {i \in 1..Len(log) : log[i].call = "primary query"}
simplifiedCalls == {i \in 1..Len(log) : log[i].call = "simplified query"}

\* the handler has returned, and the list of a 200 response is the fallback list
returnedFallback ==
    /\ pc = "done"
    /\ response.status \in {200, 500}
    /\ response.status = 200 =>
          agreeButRating(response.body.similarMovies,
                         getFallbackSimilarMovies(local.vibeParameters, body.field.v,
                                                  CHOOSE randoms \in RandomStreams : TRUE).val)

\* at most one primary and one simplified query, the simplified one right after
\* the primary one; a simplified query without entities, and a primary query
\* whose fetch threw, end in the fallback list
chainOfTwo ==
    /\ Cardinality(primaryCalls) <= 1
    /\ Cardinality(simplifiedCalls) <= 1
    /\ Cardinality(callsTo("recommendation")) <= 2
    /\ \A s \in simplifiedCalls : s - 1 \in primaryCalls /\ log[s - 1].settled
    /\ \A s \in simplifiedCalls :
           log[s].answer \in {"non2xx", "empty", "neterr", "badbody"} => returnedFallback
    /\ \A p \in primaryCalls :
           log[p].answer = "neterr" => simplifiedCalls = {} /\ returnedFallback

\* C24 (every non-2xx reply retried): a primary query answered non-2xx or
\* without entities is followed by exactly one simplified query; a simplified
\* query that brings no entity, and a primary query whose fetch throws, end in
\* the fallback list, the latter without a simplified query; there is no third
\* call.
C24_EveryNon2xxRetried ==
    endpoint = "movie" =>
        /\ chainOfTwo
        /\ \A p \in primaryCalls :
               log[p].answer \in {"non2xx", "badtext", "empty"} => Cardinality(simplifiedCalls) = 1

\* C24 (readable non-2xx reply retried): a primary query answered without
\* entities, or non-2xx with a text that could be read, is followed by exactly
\* one simplified query, and no other primary query is; a primary query whose
\* fetch throws, whose non-2xx text cannot be read or whose 2xx body does not
\* parse ends in the fallback list without a simplified query; a simplified
\* query that brings no entity ends in the fallback list; there is no third call.
C24_ReadableNon2xxRetried ==
    endpoint = "movie" =>
        /\ chainOfTwo
        /\ \A p \in primaryCalls :
               /\ log[p].answer \in {"non2xx", "empty"} <=> Cardinality(simplifiedCalls) = 1
               /\ log[p].answer \in {"neterr", "badtext", "badbody"} => returnedFallback

\* the primary query answered non-2xx, its text could not be read, and the
\* handler returned the fallback list without a simplified query
C24_Witness ==
    /\ endpoint = "movie"
    /\ \E p \in primaryCalls : log[p].answer = "badtext"
    /\ simplifiedCalls = {}
    /\ returnedFallback
    /\ response.status = 200
    /\ Len(response.body.similarMovies) > 0

\* the primary query answered non-2xx, the simplified query without entities,
\* and the handler returned the fallback list after the two calls
C24_WitnessChain ==
    /\ endpoint = "movie"
    /\ \E p \in primaryCalls : log[p].answer = "non2xx"
    /\ \E s \in simplifiedCalls : log[s].answer = "empty"
    /\ returnedFallback
    /\ response.status = 200

\* /api/analyze-movie answered 200
movieAnswered == endpoint = "movie" /\ pc = "done" /\ response.status = 200

\* two names are equal, letter case aside
sameName(a, b) == toLowerCase(a) = toLowerCase(b)

\* C25 (no title is the requested name): every 200 response of
\* /api/analyze-movie has at most 6 similarMovies and none whose title is the
\* requested movie name, letter case aside.
C25_NoRequestedTitle ==
    movieAnswered =>
        /\ Len(response.body.similarMovies) <= 6
        /\ \A k \in 1..Len(response.body.similarMovies) :
               ~sameName(response.body.similarMovies[k].title, body.field.v)

\* C25 (but for the placeholder title): every 200 response of
\* /api/analyze-movie has at most 6 similarMovies, and one whose title is the
\* requested movie name, letter case aside, is titled 'Unknown Movie' and was
\* made from an entity of the endpoint, which had no name.
C25_NoRequestedTitleButPlaceholder ==
    movieAnswered =>
        /\ Len(response.body.similarMovies) <= 6
        /\ \A k \in 1..Len(response.body.similarMovies) :
               sameName(response.body.similarMovies[k].title, body.field.v) =>
                   /\ "qloo_data" \in DOMAIN response.body.similarMovies[k]
                   /\ response.body.similarMovies[k].title = <<"U","n","k","n","o","w","n"," ","M","o","v","i","e">>
                   /\ response.body.similarMovies[k].qloo_data.entity_id = Undefined

\* 'unknown movie' was asked for and the endpoint returned seven entities, some
\* without a name: the response has the first six, one of them titled 'Unknown
\* Movie'
C25_Witness ==
    /\ movieAnswered
    /\ body.field = Str(<<"u","n","k","n","o","w","n"," ","m","o","v","i","e">>)
    /\ Len(response.body.similarMovies) = 6
    /\ \A k \in 1..6 : "qloo_data" \in DOMAIN response.body.similarMovies[k]
    /\ \E k \in 1..6 : /\ response.body.similarMovies[k].title = <<"U","n","k","n","o","w","n"," ","M","o","v","i","e">>
                        /\ sameName(response.body.similarMovies[k].title, body.field.v)
    /\ \E k \in 1..6 : response.body.similarMovies[k].title = <<"P","A","R","A","S","I","T","E">>

\* the titles of a list of movies
titlesOf(movies) == [k \in 1..Len(movies) |-> movies[k].title]

\* the titles of the 'drama' entries of the table but the original movie
dramaTitlesBut(originalMovie) ==
    SelectSeq(titlesOf(moviesOf(<<"d","r","a","m","a">>)), LAMBDA title : ~sameName(title, originalMovie))

\* no tag of the parameters names a vibe of the table and no primaryMood is given
noVibeNamed(vibeParameters) ==
    /\ \A j \in 1..Len(vibeParameters.tags) : moviesOf(vibeParameters.tags[j]) = <<>>
    /\ ~truthy(optional(vibeParameters, "primaryMood"))

\* C26: for every list of string tags and every original movie name,
\* getFallbackSimilarMovies returns between 2 and 6 movies with pairwise
\* distinct titles, each with matchScore from 0.6 to 0.95; when no tag names a
\* vibe of the table and no primaryMood is given they are the 'drama' entries
\* but the original movie.
C26_TwoToSixDistinct ==
    \A i \in 1..Len(calls) :
        calls[i].fn = "getFallbackSimilarMovies" =>
            /\ ~calls[i].result.threw
            /\ Len(calls[i].result.val) \in 2..6
            /\ \A j, k \in 1..Len(calls[i].result.val) :
                   j # k => calls[i].result.val[j].title # calls[i].result.val[k].title
            /\ \A k \in 1..Len(calls[i].result.val) :
                   /\ calls[i].result.val[k].matchScore >= 600
                   /\ calls[i].result.val[k].matchScore <= 950
            /\ noVibeNamed(calls[i].args[1]) =>
                   titlesOf(calls[i].result.val) = dramaTitlesBut(calls[i].args[2])

\* an analysis has all of summary, themes, genres and culturalKeywords
hasFourFields(analysis) ==
    /\ truthy(analysis.summary)
    /\ truthy(analysis.themes)
    /\ truthy(analysis.genres)
    /\ truthy(analysis.culturalKeywords)

C28_PageStateConsistent ==
    /\ page.state = "complete" <=> page.results # Null
    /\ page.state = "error" => page.error # Null
    /\ page.last = "resetApp" =>
          /\ page.state = "idle"
          /\ page.results = Null
          /\ page.error = Null
          /\ page.input = <<>>

\* a second submission, made after a failure and resetApp, is complete
C28_Witness ==
    /\ page.submissions = 2
    /\ page.state = "complete"
    /\ page.results \in ResponseData

\* the states a submission on the page passes when nothing fails
stages(kind) ==
    IF kind = "home" THEN <<"uploading", "analyzing", "generating", "complete">>
    ELSE <<"analyzing", "generating", "complete">>

\* the states a submission may have passed so far: the first stages, in order,
\* or the stages before 'generating' followed by 'error'
forwardTrails(kind) ==
    {SubSeq(stages(kind), 1, n) : n \in 0..Len(stages(kind))}
        \cup {Append(SubSeq(stages(kind), 1, n), "error") : n \in 1..(Len(stages(kind)) - 2)}

\* C29: the states of a submission only advance: (uploading,) analyzing,
\* generating once the API call has succeeded, complete when the timer has
\* fired, or 'error' straight from uploading or analyzing; so 'complete' comes
\* only after 'generating' and nothing follows 'error'.
C29_StateOnlyAdvances ==
    /\ page.trail \in forwardTrails(page.kind)
    /\ page.state \in {"idle", "error"} \/ page.state = page.trail[Len(page.trail)]
    /\ page.state = "generating" => (page.last = "posted" /\ page.response \in ResponseData)
    /\ page.state = "complete" => page.last = "timeout"
    /\ page.state = "error" => page.trail[Len(page.trail)] = "error"

\* an image submission went through all four states
C29_Witness ==
    /\ page.kind = "home"
    /\ page.state = "complete"
    /\ page.trail = <<"uploading", "analyzing", "generating", "complete">>

\* the most outbound calls of a request to the route
mostCalls == IF endpoint = "analyze" THEN 4 ELSE 5

\* C30: when every outbound call settles, every request is answered, with one
\* response that is never replaced, after at most 4 outbound calls on
\* /api/analyze (1 caption, 1 language model, 2 recommendation) and at most 5
\* on /api/analyze-movie (3 model calls, 2 recommendation queries).
C30_AnswersWithinCalls ==
    /\ <>(pc = "done")
    /\ [][<<pc, inflight>>' # <<pc, inflight>>]_vars
    /\ [](pc = "done" <=> response # NoResponse)
    /\ [](pc = "done" => inflight = {})
    /\ [][response # NoResponse => response' = response]_vars
    /\ [](/\ Len(log) <= mostCalls
          /\ Cardinality(callsTo("vision")) <= (IF endpoint = "analyze" THEN 1 ELSE 0)
          /\ Cardinality(callsTo("language")) <= (IF endpoint = "analyze" THEN 1 ELSE 3)
          /\ Cardinality(callsTo("recommendation")) <= 2)

\* /api/analyze-movie has answered after three model calls and two queries
C30_Witness ==
    /\ endpoint = "movie"
    /\ pc = "done"
    /\ response # NoResponse
    /\ Cardinality(callsTo("language")) = 3
    /\ Cardinality(callsTo("recommendation")) = 2
    /\ Len(log) = mostCalls
----------------------------------------------------------------------------
Init ==
    /\ endpoint \in {"analyze", "movie"}
    /\ body \in (IF endpoint = "analyze" THEN ImageBodies ELSE MovieBodies)
    /\ hfKey \in BOOLEAN
    /\ qlooKey \in BOOLEAN
    /\ pc = "start"
    /\ inflight = {}
    /\ log = <<>>
    /\ local = NoLocals
    /\ response = NoResponse
    /\ calls = <<>>
    /\ page = HomePage

Next ==
    \/ ImgStart
    \/ ImgCaptionSettles
    \/ ImgVibeSettles
    \/ ImgQlooSettles
    \/ MovStart
    \/ MovModelSettles
    \/ MovPrimarySettles
    \/ MovSimplifiedSettles

Spec == Init /\ [][Next]_vars

\* the handler goes on: it starts, or the fetch it awaits settles and it
\* answers or suspends at the next fetch.  Every step of Next is such a step
\* and changes <<pc, inflight>>
GoesOn ==
    /\ pc # "done"
    /\ pc' \in {"caption", "vibe", "qloo", "model", "primary", "simplified", "done"}
    /\ inflight' \in {{}} \cup {{f} : f \in {"caption", "vibe", "primary query", "simplified query",
                                               "primary", "backup", "alternative",
                                               "restaurants", "experiences", "music", "activities"}}

\* every fetch in flight settles, and a handler that can go on does
FairSpec == Spec /\ WF_<<pc, inflight>>(GoesOn)


LibInit ==
    /\ endpoint = "analyze"
    /\ body = Body(FALSE, Undefined)
    /\ hfKey = FALSE
    /\ qlooKey = FALSE
    /\ pc = "done"
    /\ inflight = {}
    /\ log = <<>>
    /\ local = NoLocals
    /\ response = NoResponse
    /\ calls = <<>>
    /\ page = HomePage

LibNext ==
    \/ CallTransformQlooResponse
    \/ CallTransformQlooMovieResponse
    \/ CallGetFallbackCategoryItems
    \/ CallIntelligentVibeAnalysis
    \/ CallGetFallbackSimilarMovies
    \/ CallValidateImageFile
    \/ CallOnDrop

LibSpec == LibInit /\ [][LibNext]_vars


PageInit ==
    /\ endpoint = "analyze"
    /\ body = Body(FALSE, Undefined)
    /\ hfKey = FALSE
    /\ qlooKey = FALSE
    /\ pc = "done"
    /\ inflight = {}
    /\ log = <<>>
    /\ local = NoLocals
    /\ response = NoResponse
    /\ calls = <<>>
    /\ page \in {HomePage, MovieVibePage}

PageNext ==
    \/ SelectImage
    \/ ImageEncoded
    \/ EncodingFails
    \/ SubmitMovie
    \/ ApiSucceeds
    \/ ApiFails
    \/ TimerFires
    \/ ResetApp

PageSpec == PageInit /\ [][PageNext]_vars
====
